---------------------------- MODULE Spec2Model ----------------------------
(***************************************************************************)
(* Rewards ledger, watering streaks, scan throttle and verification        *)
(* aggregator of the Joyo backend (database_postgres.py, database.py,      *)
(* api_joyo_core.py, enhanced_ai_validator.py).                            *)
(*                                                                         *)
(* The store is the module-level singleton `db`; every JoyoDatabase method *)
(* opens its own connection, commits on normal exit and rolls back when an *)
(* exception leaves the `with` block, so one method call is one            *)
(* transaction.  Both storage backends are modelled: PostgreSQL enforces   *)
(* FOREIGN KEY and UNIQUE constraints, SQLite (no PRAGMA foreign_keys)     *)
(* enforces UNIQUE only.                                                   *)
(***************************************************************************)
EXTENDS Integers, Sequences, FiniteSets, TLC

\* ------------------------------------------------------------------ bounds
MaxUsers == 2
MaxPlants == 1
MaxTx == 2
MaxLedger == 3
MaxActivities == 3
MaxDay == 16
MaxDailyDay == 6
MaxWaterDay == 3
MaxGeoDay == 2
MaxClock == 2
MaxLimit == 2
MaxDirectTotal == 10
MaxRowDay == 4
MaxLocations == 4
MaxScenarioDay == 8
MaxScenarioRows == 9
MaxScanDay == 9
MaxScans == 3
MaxMints == 1
MaxRaceDay == 2
NumProcs == 2

UserIds == 1..MaxUsers
PlantIds == 1..MaxPlants
TxIds == 1..MaxTx
ProcIds == 1..NumProcs
NoPlant == 0
NoDate == 0
\* GPS fixes lie on one meridian and are given in metres along it
GpsPoints == {0, 50, 51}
Origin == 0
PointAmounts == {0, 5}
Backends == {"postgres", "sqlite"}

VARIABLES
    backend,    \* which JoyoDatabase class backs `db`
    services,   \* module-level service objects of the API (None or initialised)
    db,         \* the tables: users, plants, points_ledger, activities, streaks, health_scans
    today,      \* date.today() / NOW(), in days
    result,     \* what the last call returned to its caller
    procs,      \* in-flight calls or requests: position and locals of each
    hist        \* observations of the run: totals returned, bonuses granted, NFT mints tried

vars == <<backend, services, db, today, result, procs, hist>>

\* ------------------------------------------------------------------ tables
NoUser == [present |-> FALSE, total_points |-> 0]
NoPlantRow == [present |-> FALSE, user_id |-> 0, total_points_earned |-> 0,
               fingerprint_data |-> FALSE, gps_latitude |-> 0]
NoStreak == [present |-> FALSE, current_streak |-> 0, longest_streak |-> 0,
             last_watered_date |-> NoDate, total_waterings |-> 0,
             streak_bonus_points |-> 0]

EmptyDb ==
    [users |-> [u \in UserIds |-> NoUser],
     plants |-> [p \in PlantIds |-> NoPlantRow],
     points_ledger |-> <<>>,
     activities |-> <<>>,
     streaks |-> [p \in PlantIds |-> NoStreak],
     health_scans |-> <<>>]

\* a call that raised: get_connection rolled the transaction back
Raised(d) == [ok |-> FALSE, db |-> d, ret |-> [total_points |-> 0]]

RECURSIVE SumPoints(_, _)
SumPoints(rows, u) ==
    IF rows = <<>> THEN 0
    ELSE (IF Head(rows).user_id = u THEN Head(rows).points ELSE 0)
         + SumPoints(Tail(rows), u)

RECURSIVE SumPlantPoints(_, _)
SumPlantPoints(rows, p) ==
    IF rows = <<>> THEN 0
    ELSE (IF Head(rows).plant_id = p THEN Head(rows).points ELSE 0)
         + SumPlantPoints(Tail(rows), p)

HasTransaction(d, t) == \E i \in 1..Len(d.points_ledger) : d.points_ledger[i].transaction_id = t

\* FOREIGN KEY constraints are enforced by PostgreSQL only
EnforcesForeignKeys(be) == be = "postgres"

\* ------------------------------------------------------------ JoyoDatabase
create_user(d, be, user_id) ==
    [ok |-> TRUE,
     db |-> IF d.users[user_id].present THEN d
            ELSE [d EXCEPT !.users[user_id] = [present |-> TRUE, total_points |-> 0]],
     ret |-> [total_points |-> 0]]

register_plant(d, be, plant_id, user_id, gps_latitude) ==
    IF d.plants[plant_id].present THEN Raised(d)
    ELSE IF EnforcesForeignKeys(be) /\ ~d.users[user_id].present THEN Raised(d)
    ELSE IF d.streaks[plant_id].present THEN Raised(d)
    ELSE [ok |-> TRUE,
          db |-> [d EXCEPT !.plants[plant_id] =
                               [present |-> TRUE, user_id |-> user_id,
                                total_points_earned |-> 0,
                                fingerprint_data |-> FALSE,
                                gps_latitude |-> gps_latitude],
                           !.streaks[plant_id] = [NoStreak EXCEPT !.present = TRUE]],
          ret |-> [total_points |-> 0]]

add_points(d, be, transaction_id, user_id, points, transaction_type, plant_id) ==
    IF HasTransaction(d, transaction_id) THEN Raised(d)
    ELSE IF EnforcesForeignKeys(be) /\ ~d.users[user_id].present THEN Raised(d)
    ELSE IF EnforcesForeignKeys(be) /\ plant_id # NoPlant /\ ~d.plants[plant_id].present
         THEN Raised(d)
    ELSE LET d1 == [d EXCEPT !.points_ledger = Append(@,
                        [transaction_id |-> transaction_id, user_id |-> user_id,
                         plant_id |-> plant_id, transaction_type |-> transaction_type,
                         points |-> points])]
             d2 == IF d1.users[user_id].present
                   THEN [d1 EXCEPT !.users[user_id].total_points = @ + points]
                   ELSE d1
             d3 == IF plant_id # NoPlant /\ d2.plants[plant_id].present
                   THEN [d2 EXCEPT !.plants[plant_id].total_points_earned = @ + points]
                   ELSE d2
         IN [ok |-> TRUE, db |-> d3,
             ret |-> [total_points |-> IF d3.users[user_id].present
                                       THEN d3.users[user_id].total_points
                                       ELSE points]]

get_plant(d, plant_id) == d.plants[plant_id]

update_plant_fingerprint(d, plant_id) ==
    [ok |-> TRUE,
     db |-> IF d.plants[plant_id].present
            THEN [d EXCEPT !.plants[plant_id].fingerprint_data = TRUE] ELSE d,
     ret |-> [total_points |-> 0]]

record_activity(d, be, plant_id, user_id, activity_type, points_earned) ==
    IF EnforcesForeignKeys(be) /\ ~d.plants[plant_id].present THEN Raised(d)
    ELSE IF EnforcesForeignKeys(be) /\ ~d.users[user_id].present THEN Raised(d)
    ELSE [ok |-> TRUE,
          db |-> [d EXCEPT !.activities = Append(@,
                     [plant_id |-> plant_id, user_id |-> user_id,
                      activity_type |-> activity_type,
                      points_earned |-> points_earned])],
          ret |-> [total_points |-> 0]]

save_health_scan(d, be, plant_id, now) ==
    IF EnforcesForeignKeys(be) /\ ~d.plants[plant_id].present THEN Raised(d)
    ELSE [ok |-> TRUE,
          db |-> [d EXCEPT !.health_scans = Append(@,
                     [plant_id |-> plant_id, scan_date |-> now])],
          ret |-> [total_points |-> 0]]

\* COUNT(*) of the plant's scans with scan_date >= NOW() - INTERVAL 'days days'
CountScansSince(rows, plant_id, days, now) ==
    Cardinality({k \in 1..Len(rows) :
                    rows[k].plant_id = plant_id /\ rows[k].scan_date >= now - days})

count_health_scans_last_days(d, plant_id, days, now) ==
    CountScansSince(d.health_scans, plant_id, days, now)

\* bonus for a streak length: granted on equality with a milestone only
MilestoneBonus_AsUnpaid(new_streak) == 0

MilestoneBonus_AsAtLeast(new_streak) ==
    IF new_streak >= 100 THEN 200
    ELSE IF new_streak >= 30 THEN 50
    ELSE IF new_streak >= 7 THEN 10
    ELSE 0

MilestoneBonus(new_streak) ==
    IF new_streak = 7 THEN 10
    ELSE IF new_streak = 30 THEN 50
    ELSE IF new_streak = 100 THEN 200
    ELSE 0

Max_AsLatest(a, b) == b

Max(a, b) == IF a >= b THEN a ELSE b

NoStreakRet == [current_streak |-> 0, longest_streak |-> 0, bonus_points |-> 0,
                total_waterings |-> 0, has_total_waterings |-> FALSE,
                already_watered |-> FALSE, wrote |-> FALSE]

StreakRaised(d) == [ok |-> FALSE, db |-> d, ret |-> NoStreakRet]

\* the SELECT at the top of update_watering_streak: the row as the call sees it
streak_select(d, plant_id) == d.streaks[plant_id]

\* the rest of update_watering_streak, run on the row the SELECT returned (row)
\* against the table as it is when the statement executes (d)
streak_apply(d, be, plant_id, row, day) ==
    IF ~row.present THEN
        IF d.streaks[plant_id].present THEN StreakRaised(d)
        ELSE IF EnforcesForeignKeys(be) /\ ~d.plants[plant_id].present THEN StreakRaised(d)
        ELSE [ok |-> TRUE,
              db |-> [d EXCEPT !.streaks[plant_id] =
                         [NoStreak EXCEPT !.present = TRUE, !.current_streak = 1,
                                          !.total_waterings = 1,
                                          !.last_watered_date = day]],
              ret |-> [NoStreakRet EXCEPT !.current_streak = 1, !.longest_streak = 1,
                                          !.wrote = TRUE]]
    ELSE IF row.last_watered_date = day THEN
        [ok |-> TRUE, db |-> d,
         ret |-> [NoStreakRet EXCEPT !.current_streak = row.current_streak,
                                     !.longest_streak = row.longest_streak,
                                     !.already_watered = TRUE]]
    ELSE
        LET new_streak == IF row.last_watered_date = day - 1 /\ row.last_watered_date # NoDate
                          THEN row.current_streak + 1 ELSE 1
            new_longest == Max(row.longest_streak, new_streak)
            bonus_points == MilestoneBonus(new_streak)
        IN [ok |-> TRUE,
            db |-> [d EXCEPT !.streaks[plant_id] =
                       [@ EXCEPT !.current_streak = new_streak,
                                 !.longest_streak = new_longest,
                                 !.last_watered_date = day,
                                 !.total_waterings = @ + 1,
                                 !.streak_bonus_points = @ + bonus_points]],
            ret |-> [NoStreakRet EXCEPT !.current_streak = new_streak,
                                        !.longest_streak = new_longest,
                                        !.bonus_points = bonus_points,
                                        !.total_waterings = row.total_waterings + 1,
                                        !.has_total_waterings = TRUE,
                                        !.wrote = TRUE]]

update_watering_streak_AsSameDayCounted(d, be, plant_id, day) ==
    streak_apply(d, be, plant_id,
                 [streak_select(d, plant_id) EXCEPT
                     !.last_watered_date = IF @ = day THEN day - 1 ELSE @], day)

update_watering_streak_AsNeverContinued(d, be, plant_id, day) ==
    streak_apply(d, be, plant_id,
                 [streak_select(d, plant_id) EXCEPT !.last_watered_date = NoDate], day)

\* one call with nothing running between its statements
update_watering_streak(d, be, plant_id, day) ==
    streak_apply(d, be, plant_id, streak_select(d, plant_id), day)

get_streak_info(d, plant_id) == d.streaks[plant_id]

\* what complete_unified_verification reports, before any request
NoVerification == [overall_status |-> "pending", success |-> FALSE,
                   recognition_success |-> FALSE, health_success |-> FALSE,
                   fraud_valid |-> FALSE, fraud_recommendation |-> "none",
                   has_biometric |-> FALSE, passed_stages |-> 0,
                   critical_stages_passed |-> FALSE,
                   nft_attempted |-> FALSE, points_earned |-> 0]

\* ------------------------------------------------------ Python floats
\* The doubles the fraud scorer computes with, held exactly: a sign and a
\* magnitude in units of 2^-55, the magnitude in two limbs hi * Limb + lo.
\* Every literal of the scorer is a whole number of these units.
Limb == 268435456

Dbl(neg, hi, lo) == [neg |-> neg, hi |-> hi, lo |-> lo]

DblZero == Dbl(FALSE, 0, 0)
DblOne == Dbl(FALSE, 134217728, 0)

\* the doubles nearest to 0.0, 0.1, ..., 1.0 (float("0.t") at index t + 1)
DoubleOfTenths ==
    << Dbl(FALSE, 0, 0),
       Dbl(FALSE, 13421772, 214748365),
       Dbl(FALSE, 26843545, 161061274),
       Dbl(FALSE, 40265318, 107374182),
       Dbl(FALSE, 53687091, 53687092),
       Dbl(FALSE, 67108864, 0),
       Dbl(FALSE, 80530636, 214748364),
       Dbl(FALSE, 93952409, 161061272),
       Dbl(FALSE, 107374182, 107374184),
       Dbl(FALSE, 120795955, 53687092),
       Dbl(FALSE, 134217728, 0) >>

MagLess(a, b) == a.hi < b.hi \/ (a.hi = b.hi /\ a.lo < b.lo)

\* a - b for magnitudes with b <= a
MagSub(a, b) ==
    IF a.lo >= b.lo THEN [hi |-> a.hi - b.hi, lo |-> a.lo - b.lo]
    ELSE [hi |-> a.hi - b.hi - 1, lo |-> a.lo + Limb - b.lo]

MagAdd(a, b) ==
    IF a.lo + b.lo >= Limb THEN [hi |-> a.hi + b.hi + 1, lo |-> a.lo + b.lo - Limb]
    ELSE [hi |-> a.hi + b.hi, lo |-> a.lo + b.lo]

\* spacing of the doubles around a magnitude: 53 significant bits
Spacing(m) ==
    IF m.hi >= 134217728 THEN 8
    ELSE IF m.hi >= 67108864 THEN 4
    ELSE IF m.hi >= 33554432 THEN 2
    ELSE 1

\* round to nearest, ties to even: the rounding of every float operation
RoundNearestEven(m) ==
    LET step == Spacing(m)
        r == m.lo % step
        q == m.lo \div step
        up == 2 * r > step \/ (2 * r = step /\ q % 2 = 1)
        lo == IF up THEN m.lo - r + step ELSE m.lo - r
    IN IF lo = Limb THEN [hi |-> m.hi + 1, lo |-> 0] ELSE [hi |-> m.hi, lo |-> lo]

Signed(neg, m) == Dbl(neg /\ (m.hi # 0 \/ m.lo # 0), m.hi, m.lo)

\* float.__sub__(a, b) for b >= 0
DblSub(a, b) ==
    IF a.neg THEN Signed(TRUE, RoundNearestEven(MagAdd(a, b)))
    ELSE IF MagLess(a, b) THEN Signed(TRUE, RoundNearestEven(MagSub(b, a)))
    ELSE Signed(FALSE, RoundNearestEven(MagSub(a, b)))

\* float.__lt__(a, b)
DblLess(a, b) ==
    IF a.neg # b.neg THEN a.neg
    ELSE IF a.neg THEN MagLess(b, a)
    ELSE MagLess(a, b)

\* max(a, b) of two floats: the first unless the second is greater
DblMax(a, b) == IF DblLess(a, b) THEN b ELSE a

\* historical_data of the fraud scorer; None and {} are present = FALSE, a
\* key left out has the default of its .get
NoHistory == [present |-> FALSE, avg_trees_per_day |-> 0,
              verifications_last_24h |-> 0, success_rate |-> 100]

NoScore == [trees |-> 0, historical_data |-> NoHistory, confidence |-> DblZero,
            recommendation |-> "none", fraud_indicators |-> 0]

\* ------------------------------------------------ ledger, driven directly
NoResult == [op |-> "none", ok |-> TRUE, total_points |-> 0, dup |-> FALSE,
             before |-> EmptyDb, streak |-> NoStreakRet, plant_id |-> NoPlant,
             status |-> "none", http |-> 0, day |-> NoDate, day_number |-> 0,
             fault |-> "none", points_earned |-> 0, ai_called |-> FALSE,
             gps |-> Origin,
             verification |-> NoVerification,
             score |-> NoScore,
             user_id |-> 0, limit |-> 0, history |-> <<>>,
             locations |-> <<>>, answer |-> <<>>, validations |-> <<>>]

NoHist == [returned |-> [t \in TxIds |-> 0],
           bonus_grants |-> [p \in PlantIds |-> 0],
           nft_mints |-> 0,
           first_call |-> [p \in PlantIds |-> NoDate],
           last_call |-> [p \in PlantIds |-> NoDate],
           gapless |-> [p \in PlantIds |-> TRUE],
           max_current |-> [p \in PlantIds |-> 0],
           script |-> 0]

IdleProc == [pc |-> "idle", plant_id |-> NoPlant, day |-> NoDate, row |-> NoStreak,
             ok |-> TRUE, ret |-> NoStreakRet, scans_this_week |-> 0, recent_seen |-> 0,
             transaction_id |-> 0, user_id |-> 0, points |-> 0, total_points |-> 0,
             user_found |-> FALSE, raced |-> FALSE]

\* api_joyo_core: every optional service failed to import or initialise
NoServices == [plant_recognition |-> FALSE, plant_health |-> FALSE,
               plant_verification |-> FALSE, geo_verification |-> FALSE,
               ai_validator |-> "none",
               ALGORAND_AVAILABLE |-> FALSE]

InitStore ==
    /\ db = EmptyDb
    /\ today = 1
    /\ result = NoResult
    /\ procs = [i \in ProcIds |-> IdleProc]
    /\ hist = NoHist

\* JoyoDatabase used directly, on either backend
Init ==
    /\ backend \in Backends
    /\ services = NoServices
    /\ InitStore

CreateUser(u) ==
    /\ ~db.users[u].present
    /\ db' = create_user(db, backend, u).db
    /\ result' = [NoResult EXCEPT !.op = "create_user", !.before = db]
    /\ UNCHANGED <<backend, services, today, procs, hist>>

RegisterPlantRow(p, u) ==
    /\ ~db.plants[p].present
    /\ LET r == register_plant(db, backend, p, u, Origin)
       IN /\ db' = r.db
          /\ result' = [NoResult EXCEPT !.op = "register_plant", !.ok = r.ok, !.before = db]
    /\ UNCHANGED <<backend, services, today, procs, hist>>

AddPoints(t, u, pts, p) ==
    /\ Len(db.points_ledger) < MaxLedger
    /\ LET r == add_points(db, backend, t, u, pts, "watering", p)
       IN /\ db' = r.db
          /\ result' = [NoResult EXCEPT !.op = "add_points", !.ok = r.ok,
                                        !.total_points = r.ret.total_points,
                                        !.dup = HasTransaction(db, t),
                                        !.before = db]
          /\ hist' = IF r.ok THEN [hist EXCEPT !.returned[t] = r.ret.total_points]
                     ELSE hist
    /\ UNCHANGED <<backend, services, today, procs>>

NextLedger ==
    \/ \E u \in UserIds : CreateUser(u)
    \/ \E p \in PlantIds, u \in UserIds : RegisterPlantRow(p, u)
    \/ \E t \in TxIds, u \in UserIds, pts \in PointAmounts, p \in PlantIds \cup {NoPlant} :
           AddPoints(t, u, pts, p)

SpecLedger == Init /\ [][NextLedger]_vars

\* C1: every user's total_points equals the sum of the points of the
\* points_ledger rows carrying that user_id, in every reachable state.
C1_TotalEqualsLedgerSum ==
    \A u \in UserIds :
        db.users[u].present => db.users[u].total_points = SumPoints(db.points_ledger, u)

\* C4: add_points with a transaction_id already in points_ledger returns the
\* original call's result (same total_points) instead of an error, and
\* changes no table.
C4_ReplayReturnsOriginal ==
    (result.op = "add_points" /\ result.dup) =>
        /\ result.ok
        /\ result.total_points = hist.returned[
               result.before.points_ledger[Len(result.before.points_ledger)].transaction_id]
        /\ db = result.before

\* C16: add_points for a user_id without a users row fails and leaves the
\* store unchanged: no points_ledger row, no plant total change, no success
\* result carrying a total_points value.
C16_UnknownUserRejected ==
    result.op = "add_points" =>
        IF result.ok
        THEN result.before.users[db.points_ledger[Len(db.points_ledger)].user_id].present
        ELSE db = result.before

\* ------------------------------------------- streak engine, calls in sequence
StreakPlant == 1
StreakOwner == 1

AdvanceDay(max) ==
    /\ today < max
    /\ today' = today + 1
    /\ UNCHANGED <<backend, services, db, result, procs, hist>>

UpdateWateringStreak(p) ==
    /\ LET r == update_watering_streak(db, backend, p, today)
       IN /\ db' = r.db
          /\ result' = [NoResult EXCEPT !.op = "update_watering_streak", !.ok = r.ok,
                                        !.streak = r.ret, !.plant_id = p,
                                        !.before = db]
          /\ hist' = IF r.ok /\ r.ret.bonus_points = 10
                     THEN [hist EXCEPT !.bonus_grants[p] = @ + 1]
                     ELSE hist
    /\ UNCHANGED <<backend, services, today, procs>>

NextStreak ==
    \/ CreateUser(StreakOwner)
    \/ RegisterPlantRow(StreakPlant, StreakOwner)
    \/ UpdateWateringStreak(StreakPlant)
    \/ AdvanceDay(MaxDay)

SpecStreak == Init /\ [][NextStreak]_vars

\* C3: for each plant the 7-day milestone bonus is granted exactly once over
\* any sequence of update_watering_streak calls: on the first watering that
\* makes current_streak 7 and on no later one, also after a reset and re-climb.
C3_MilestoneBonusOnce ==
    \A p \in PlantIds :
        db.plants[p].present =>
            /\ hist.bonus_grants[p] <= 1
            /\ (db.streaks[p].longest_streak >= 7 => hist.bonus_grants[p] = 1)

\* ------------------------------------ streak engine, from any stored row
\* streak_bonus_points of a row whose longest streak is n, each milestone
\* paid once
BonusPaidUpTo(n) ==
    (IF n >= 7 THEN 10 ELSE 0) + (IF n >= 30 THEN 50 ELSE 0) + (IF n >= 100 THEN 200 ELSE 0)

\* the row register_plant inserts, and rows of plants watered before day 3:
\* streaks around each milestone, last watered today, yesterday or earlier
StoredStreakRows ==
    {[NoStreak EXCEPT !.present = TRUE]} \cup
    UNION {{[present |-> TRUE, current_streak |-> c, longest_streak |-> l,
             last_watered_date |-> last, total_waterings |-> l,
             streak_bonus_points |-> BonusPaidUpTo(l)] :
                l \in {c, c + 1, 101}, last \in 1..3} :
           c \in {1, 5, 6, 7, 28, 29, 30, 31, 98, 99, 100}}

InitRow ==
    /\ backend \in Backends
    /\ services = NoServices
    /\ today = 3
    /\ \E row \in StoredStreakRows :
           db = [EmptyDb EXCEPT
                    !.users[StreakOwner] = [present |-> TRUE, total_points |-> 0],
                    !.plants[StreakPlant] = [NoPlantRow EXCEPT !.present = TRUE,
                                                              !.user_id = StreakOwner],
                    !.streaks[StreakPlant] = row]
    /\ result = NoResult
    /\ procs = [i \in ProcIds |-> IdleProc]
    /\ hist = NoHist

NextRow ==
    \/ UpdateWateringStreak(StreakPlant)
    \/ AdvanceDay(MaxRowDay)

SpecRow == InitRow /\ [][NextRow]_vars

\* the last call was an accepted watering: it found the streak row and the
\* row was not watered on the day of the call
AcceptedWatering ==
    /\ result.op = "update_watering_streak"
    /\ result.ok
    /\ result.before.streaks[result.plant_id].present
    /\ ~result.streak.already_watered

WaterAndObserve(p) ==
    /\ LET r == update_watering_streak(db, backend, p, today)
           seen == r.db.streaks[p].current_streak
       IN /\ db' = r.db
          /\ result' = [NoResult EXCEPT !.op = "update_watering_streak", !.ok = r.ok,
                                        !.streak = r.ret, !.plant_id = p,
                                        !.day = today, !.before = db]
          /\ hist' = IF ~r.ok THEN hist
                     ELSE [hist EXCEPT
                              !.first_call[p] = IF @ = NoDate THEN today ELSE @,
                              !.gapless[p] = @ /\ (hist.last_call[p] = NoDate
                                                   \/ today - hist.last_call[p] <= 1),
                              !.last_call[p] = today,
                              !.max_current[p] = Max(@, seen)]
    /\ UNCHANGED <<backend, services, today, procs>>

NextDaily ==
    \/ CreateUser(StreakOwner)
    \/ RegisterPlantRow(StreakPlant, StreakOwner)
    \/ WaterAndObserve(StreakPlant)
    \/ AdvanceDay(MaxDailyDay)

SpecDaily == Init /\ [][NextDaily]_vars

\* C11: a freshly registered plant watered at least once on each of N
\* consecutive dates with no gap (any number of same-day repeats) has
\* current_streak = N and longest_streak >= N after day N.
C11_ConsecutiveDaysCount ==
    \A p \in PlantIds :
        (/\ db.plants[p].present
         /\ hist.first_call[p] # NoDate
         /\ hist.gapless[p]) =>
            LET N == hist.last_call[p] - hist.first_call[p] + 1
            IN /\ db.streaks[p].current_streak = N
               /\ db.streaks[p].longest_streak >= N

C11_Witness ==
    /\ db.plants[StreakPlant].present
    /\ hist.gapless[StreakPlant]
    /\ hist.last_call[StreakPlant] - hist.first_call[StreakPlant] + 1 = 4
    /\ hist.first_call[StreakPlant] > 1
    /\ result.streak.already_watered
    /\ db.streaks[StreakPlant].current_streak = 4

\* C12: when the previous accepted watering was 2 or more days before today,
\* update_watering_streak sets current_streak to 1 whatever it was, and
\* longest_streak keeps its prior value when that value is at least 1.
C12_GapResetsToOne ==
    LET p == result.plant_id
        row == result.before.streaks[p]
    IN (/\ result.op = "update_watering_streak"
        /\ row.present
        /\ row.last_watered_date # NoDate
        /\ result.day - row.last_watered_date >= 2) =>
           /\ result.ok
           /\ result.streak.current_streak = 1
           /\ db.streaks[p].current_streak = 1
           /\ (row.longest_streak >= 1 =>
                  /\ db.streaks[p].longest_streak = row.longest_streak
                  /\ result.streak.longest_streak = row.longest_streak)

C12_Witness ==
    /\ result.op = "update_watering_streak"
    /\ result.before.streaks[StreakPlant].current_streak = 3
    /\ result.before.streaks[StreakPlant].longest_streak = 3
    /\ result.day - result.before.streaks[StreakPlant].last_watered_date = 2
    /\ db.streaks[StreakPlant].current_streak = 1
    /\ db.streaks[StreakPlant].longest_streak = 3

\* C13: in every reachable state a streak row's longest_streak equals the
\* largest current_streak the row has held, the row created by the insert
\* path of update_watering_streak included.
C13_LongestIsMaxEver ==
    \A p \in PlantIds :
        db.streaks[p].present => db.streaks[p].longest_streak = hist.max_current[p]

\* C14: in sequence a streak row is mutated at most once per date: once
\* last_watered_date is today a further update_watering_streak call leaves the
\* row unchanged and returns the current values with bonus 0 and an
\* already-watered indication; last_watered_date never decreases.
C14_OneMutationPerDate ==
    LET p == result.plant_id
        row == result.before.streaks[p]
    IN result.op = "update_watering_streak" =>
           /\ db.streaks[p].last_watered_date >= row.last_watered_date
           /\ (row.present /\ row.last_watered_date = result.day) =>
                  /\ result.ok
                  /\ db.streaks[p] = row
                  /\ result.streak.current_streak = row.current_streak
                  /\ result.streak.longest_streak = row.longest_streak
                  /\ result.streak.bonus_points = 0
                  /\ result.streak.already_watered
                  /\ ~result.streak.wrote

C14_Witness ==
    /\ result.op = "update_watering_streak"
    /\ result.before.streaks[StreakPlant].last_watered_date = result.day
    /\ result.before.streaks[StreakPlant].current_streak = 2
    /\ result.streak.already_watered
    /\ db.streaks[StreakPlant].total_waterings = 2

\* ------------------------------------- streak engine, two calls in flight
\* the call starts: SELECT current_streak, last_watered_date, ... ; today = date.today()
StreakCallSelect(i, p) ==
    /\ procs[i].pc = "idle"
    /\ procs' = [procs EXCEPT ![i] = [IdleProc EXCEPT !.pc = "selected", !.plant_id = p,
                                                      !.day = today,
                                                      !.row = streak_select(db, p)]]
    /\ UNCHANGED <<backend, services, db, today, result, hist>>

\* the INSERT or UPDATE (or the early return) and the commit
StreakCallApply(i) ==
    /\ procs[i].pc = "selected"
    /\ LET r == streak_apply(db, backend, procs[i].plant_id, procs[i].row, procs[i].day)
       IN /\ db' = r.db
          /\ procs' = [procs EXCEPT ![i].pc = "done", ![i].ok = r.ok, ![i].ret = r.ret]
    /\ UNCHANGED <<backend, services, today, result, hist>>

\* the caller takes the returned dict
StreakCallReturn(i) ==
    /\ procs[i].pc = "done"
    /\ result' = [NoResult EXCEPT !.op = "update_watering_streak", !.ok = procs[i].ok,
                                  !.streak = procs[i].ret, !.plant_id = procs[i].plant_id]
    /\ procs' = [procs EXCEPT ![i] = IdleProc]
    /\ UNCHANGED <<backend, services, db, today, hist>>

NextRace ==
    \/ CreateUser(StreakOwner)
    \/ RegisterPlantRow(StreakPlant, StreakOwner)
    \/ \E i \in ProcIds : StreakCallSelect(i, StreakPlant)
    \/ \E i \in ProcIds : StreakCallApply(i)
    \/ \E i \in ProcIds : StreakCallReturn(i)
    \/ AdvanceDay(MaxRaceDay)

SpecRace == Init /\ [][NextRace]_vars

\* both calls have finished, for the same registered plant on the same date,
\* and call i started before the plant was watered that day
RacedPair(i, j) ==
    /\ i # j
    /\ procs[i].pc = "done" /\ procs[j].pc = "done"
    /\ procs[i].plant_id = procs[j].plant_id
    /\ procs[i].day = procs[j].day
    /\ db.plants[procs[i].plant_id].present
    /\ procs[i].row.present
    /\ procs[i].row.last_watered_date # procs[i].day
    /\ today = procs[i].day

\* C5: of two concurrent update_watering_streak calls for one plant on one
\* date exactly one mutates the streak under every interleaving:
\* total_waterings grows by exactly 1 and at most one call returns a
\* non-duplicate result or a bonus.
C5_OneMutationPerDay ==
    \A i, j \in ProcIds :
        RacedPair(i, j) =>
            /\ db.streaks[procs[i].plant_id].total_waterings
                   = procs[i].row.total_waterings + 1
            /\ ~(procs[i].ret.wrote /\ procs[j].ret.wrote)
            /\ (procs[i].ret.wrote \/ procs[j].ret.wrote)
            /\ ~(~procs[i].ret.already_watered /\ ~procs[j].ret.already_watered)

\* ------------------------------------------- add_points, two calls in flight
\* Each call is one transaction on its own connection.  Its statements see
\* the committed tables plus its own writes; its writes reach the tables at
\* conn.commit().  SQLite gives the whole database to one writing transaction
\* from its first INSERT to its commit; PostgreSQL locks the users row from
\* the UPDATE to the commit and lets INSERTs of different rows run together.
RacePoints == {5, 20}

InAddPoints(j) == procs[j].pc \in {"ap_inserted", "ap_updated", "ap_selected"}

HoldsDatabaseLock(j) == backend = "sqlite" /\ InAddPoints(j)

HoldsUserRowLock_AsNoLock(j, user_id) == FALSE

HoldsUserRowLock(j, user_id) ==
    /\ procs[j].pc \in {"ap_updated", "ap_selected"}
    /\ procs[j].user_id = user_id

\* INSERT INTO points_ledger: constraint checks, then the row is pending
AddPointsInsert(i, t, u, pts) ==
    /\ procs[i].pc = "idle"
    /\ ~HasTransaction(db, t)
    /\ \A j \in ProcIds \ {i} : ~HoldsDatabaseLock(j) /\ procs[j].transaction_id # t
    /\ procs' = [procs EXCEPT ![i] =
                    IF EnforcesForeignKeys(backend) /\ ~db.users[u].present
                    THEN [IdleProc EXCEPT !.pc = "ap_done", !.ok = FALSE,
                                          !.transaction_id = t, !.user_id = u,
                                          !.points = pts]
                    ELSE [IdleProc EXCEPT !.pc = "ap_inserted", !.transaction_id = t,
                                          !.user_id = u, !.points = pts,
                                          !.user_found = db.users[u].present,
                                          !.raced = \E j \in ProcIds \ {i} : InAddPoints(j)]]
    /\ UNCHANGED <<backend, services, db, today, result, hist>>

\* UPDATE users SET total_points = total_points + points: waits for the row
\* lock, then computes the new row from the latest committed one
AddPointsUpdate(i) ==
    /\ procs[i].pc = "ap_inserted"
    /\ \A j \in ProcIds \ {i} : ~HoldsUserRowLock(j, procs[i].user_id)
    /\ procs' = [procs EXCEPT ![i].pc = "ap_updated",
                              ![i].total_points =
                                  db.users[procs[i].user_id].total_points + procs[i].points]
    /\ UNCHANGED <<backend, services, db, today, result, hist>>

\* SELECT total_points FROM users: the call's own new row, or no row at all
AddPointsSelect(i) ==
    /\ procs[i].pc = "ap_updated"
    /\ procs' = [procs EXCEPT ![i].pc = "ap_selected",
                              ![i].total_points =
                                  IF db.users[procs[i].user_id].present THEN @
                                  ELSE procs[i].points]
    /\ UNCHANGED <<backend, services, db, today, result, hist>>

\* conn.commit() and the return of the dict
AddPointsCommit(i) ==
    /\ procs[i].pc = "ap_selected"
    /\ LET u == procs[i].user_id
           d1 == [db EXCEPT !.points_ledger = Append(@,
                     [transaction_id |-> procs[i].transaction_id, user_id |-> u,
                      plant_id |-> NoPlant, transaction_type |-> "watering",
                      points |-> procs[i].points])]
       IN db' = IF db.users[u].present
                THEN [d1 EXCEPT !.users[u].total_points = procs[i].total_points]
                ELSE d1
    /\ procs' = [procs EXCEPT ![i].pc = "ap_done"]
    /\ result' = [NoResult EXCEPT !.op = "add_points", !.ok = TRUE,
                                  !.total_points = procs[i].total_points,
                                  !.before = db]
    /\ UNCHANGED <<backend, services, today, hist>>

\* create_user writes too: under SQLite it waits for the database lock
CreateUserBetweenCalls(u) ==
    /\ \A j \in ProcIds : ~HoldsDatabaseLock(j)
    /\ CreateUser(u)

NextPoints ==
    \/ CreateUserBetweenCalls(StreakOwner)
    \/ \E i \in ProcIds, t \in TxIds, pts \in RacePoints :
           AddPointsInsert(i, t, StreakOwner, pts)
    \/ \E i \in ProcIds : AddPointsUpdate(i)
    \/ \E i \in ProcIds : AddPointsSelect(i)
    \/ \E i \in ProcIds : AddPointsCommit(i)

SpecPoints == Init /\ [][NextPoints]_vars

\* index of the ledger row a finished call wrote
LedgerRowOf(i) ==
    CHOOSE k \in 1..Len(db.points_ledger) :
        db.points_ledger[k].transaction_id = procs[i].transaction_id

\* C15: two concurrent add_points calls for one user with distinct
\* transaction ids and amounts a and b leave both ledger rows and raise
\* users.total_points by exactly a + b under every interleaving of their
\* insert, update and read steps, and the total each returns includes its own
\* amount.
C15_NoLostUpdate ==
    (\A i \in ProcIds : procs[i].pc = "ap_done" /\ procs[i].ok /\ procs[i].user_found) =>
        /\ \A i \in ProcIds : HasTransaction(db, procs[i].transaction_id)
        /\ \A u \in UserIds :
               db.users[u].present =>
                   db.users[u].total_points = SumPoints(db.points_ledger, u)
        /\ \A i \in ProcIds :
               procs[i].total_points
                   = SumPoints(SubSeq(db.points_ledger, 1, LedgerRowOf(i)), procs[i].user_id)

C15_Witness ==
    /\ \A i \in ProcIds : procs[i].pc = "ap_done" /\ procs[i].ok
    /\ db.users[StreakOwner].present
    /\ \E i, j \in ProcIds : procs[i].points = 5 /\ procs[j].points = 20 /\ procs[j].raced
    /\ db.users[StreakOwner].total_points = 25
    /\ Len(db.points_ledger) = NumProcs

\* ----------------------------------------------------- points history
\* INSERT INTO points_ledger as add_points runs it, with the column
\* created_at DEFAULT CURRENT_TIMESTAMP filled from the clock; id SERIAL is
\* the position of the row
add_points_at(d, be, transaction_id, user_id, points, now) ==
    LET r == add_points(d, be, transaction_id, user_id, points, "watering", NoPlant)
    IN IF r.ok
       THEN [r EXCEPT !.db.points_ledger[Len(d.points_ledger) + 1] =
                          @ @@ [created_at |-> now]]
       ELSE r

AddPointsAt(t, u, pts) ==
    /\ Len(db.points_ledger) < MaxLedger
    /\ LET r == add_points_at(db, backend, t, u, pts, today)
       IN /\ db' = r.db
          /\ result' = [NoResult EXCEPT !.op = "add_points", !.ok = r.ok,
                                        !.total_points = r.ret.total_points,
                                        !.user_id = u, !.before = db]
    /\ UNCHANGED <<backend, services, today, procs, hist>>

IsInjective(s) == \A a, b \in DOMAIN s : s[a] = s[b] => a = b

\* JoyoDatabase.get_user_points_history: the answers the statement
\* SELECT * FROM points_ledger WHERE user_id = ? ORDER BY created_at DESC LIMIT ?
\* can give, as sequences of row ids. ORDER BY names created_at alone, so rows
\* with equal created_at come in any order.
get_user_points_history(d, user_id, limit) ==
    LET rows == d.points_ledger
        ids == {i \in 1..Len(rows) : rows[i].user_id = user_id}
        n == IF limit < Cardinality(ids) THEN limit ELSE Cardinality(ids)
    IN {s \in [1..n -> ids] :
           /\ IsInjective(s)
           /\ \A a, b \in 1..n : a < b => rows[s[a]].created_at >= rows[s[b]].created_at
           /\ \A a \in 1..n : \A i \in ids \ {s[b] : b \in 1..n} :
                  rows[s[a]].created_at >= rows[i].created_at}

GetUserPointsHistory(u, limit) ==
    /\ \E s \in get_user_points_history(db, u, limit) :
           result' = [NoResult EXCEPT !.op = "get_user_points_history",
                                      !.user_id = u, !.limit = limit,
                                      !.history = s, !.before = db]
    /\ UNCHANGED <<backend, services, db, today, procs, hist>>

NextHistory ==
    \/ \E u \in UserIds : CreateUser(u)
    \/ \E t \in TxIds, u \in UserIds, pts \in PointAmounts : AddPointsAt(t, u, pts)
    \/ \E u \in UserIds, limit \in 0..MaxLimit : GetUserPointsHistory(u, limit)
    \/ AdvanceDay(MaxClock)

SpecHistory == Init /\ [][NextHistory]_vars

\* C21: get_user_points_history(user_id, limit) returns at most limit rows,
\* all of user_id, newest first, rows with equal created_at by id descending,
\* so that the answer is a function of the ledger state.
C21_HistoryNewestFirstById ==
    (result.op = "get_user_points_history" /\ db.users[result.user_id].present) =>
        LET rows == db.points_ledger
            s == result.history
        IN /\ Len(s) <= result.limit
           /\ \A a \in 1..Len(s) : rows[s[a]].user_id = result.user_id
           /\ \A a, b \in 1..Len(s) :
                  a < b =>
                      \/ rows[s[a]].created_at > rows[s[b]].created_at
                      \/ rows[s[a]].created_at = rows[s[b]].created_at /\ s[a] > s[b]

\* --------------------------------------------------- api_joyo_core handlers
\* uuid4-derived ids never collide with a stored one
NewTransactionId(d) == Len(d.points_ledger) + 1

\* the API runs on database_postgres.db
InitApi ==
    /\ backend = "postgres"
    /\ InitStore

\* persistence failures a handler can meet on one of its db calls
Faults == {"none", "record_activity", "add_points"}
\* what plant_verification.verify_watering_video can answer
VideoVerdicts == {"error", "not_verified", "verified"}

\* POST /plants/register
api_register_plant(d, be, user_id, plant_id, gps_latitude) ==
    LET d1 == IF d.users[user_id].present THEN d ELSE create_user(d, be, user_id).db
        r == register_plant(d1, be, plant_id, user_id, gps_latitude)
        pts == add_points(r.db, be, NewTransactionId(r.db), user_id, 30,
                          "plant_purchase", plant_id)
    IN IF ~r.ok THEN [db |-> d1, http |-> 500, total_points |-> 0]
       ELSE IF ~pts.ok THEN [db |-> r.db, http |-> 500, total_points |-> 0]
       ELSE [db |-> pts.db, http |-> 200, total_points |-> pts.ret.total_points]

ApiRegisterPlant(u, p, gps) ==
    /\ ~db.plants[p].present
    /\ Len(db.points_ledger) < MaxLedger
    /\ LET r == api_register_plant(db, backend, u, p, gps)
       IN /\ db' = r.db
          /\ result' = [NoResult EXCEPT !.op = "register_plant", !.http = r.http,
                                        !.ok = r.http = 200, !.plant_id = p,
                                        !.total_points = r.total_points,
                                        !.points_earned = IF r.http = 200 THEN 30 ELSE 0,
                                        !.before = db, !.day = today]
    /\ UNCHANGED <<backend, services, today, procs, hist>>

\* upload_planting_photo stores the fingerprint plant_verification computed
UpdatePlantFingerprint(p) ==
    /\ db.plants[p].present
    /\ ~db.plants[p].fingerprint_data
    /\ db' = update_plant_fingerprint(db, p).db
    /\ result' = [NoResult EXCEPT !.op = "update_plant_fingerprint", !.plant_id = p,
                                  !.before = db, !.day = today]
    /\ UNCHANGED <<backend, services, today, procs, hist>>

\* ------------------------------------------- every writer of JoyoDatabase
\* JoyoDatabase.update_user_points: the UPDATE of users alone
update_user_points(d, be, user_id, points) ==
    [ok |-> TRUE,
     db |-> IF d.users[user_id].present
            THEN [d EXCEPT !.users[user_id].total_points = @ + points]
            ELSE d,
     ret |-> [total_points |-> 0, updated |-> d.users[user_id].present]]

UpdateUserPoints(u, pts) ==
    /\ db.users[u].total_points < MaxDirectTotal
    /\ LET r == update_user_points(db, backend, u, pts)
       IN /\ db' = r.db
          /\ result' = [NoResult EXCEPT !.op = "update_user_points", !.ok = r.ret.updated,
                                        !.user_id = u, !.before = db]
    /\ UNCHANGED <<backend, services, today, procs, hist>>

RecordActivity(p, u, pts) ==
    /\ Len(db.activities) < MaxActivities
    /\ LET r == record_activity(db, backend, p, u, "watering", pts)
       IN /\ db' = r.db
          /\ result' = [NoResult EXCEPT !.op = "record_activity", !.ok = r.ok,
                                        !.user_id = u, !.plant_id = p, !.before = db]
    /\ UNCHANGED <<backend, services, today, procs, hist>>

NextDatabase ==
    \/ CreateUser(StreakOwner)
    \/ RegisterPlantRow(StreakPlant, StreakOwner)
    \/ UpdatePlantFingerprint(StreakPlant)
    \/ RecordActivity(StreakPlant, StreakOwner, 5)
    \/ \E t \in TxIds, pts \in PointAmounts : AddPoints(t, StreakOwner, pts, NoPlant)
    \/ \E pts \in PointAmounts : UpdateUserPoints(StreakOwner, pts)
    \/ UpdateWateringStreak(StreakPlant)
    \/ AdvanceDay(MaxClock)

SpecDatabase == Init /\ [][NextDatabase]_vars

\* C22: no operation of JoyoDatabase other than add_points changes
\* users.total_points, and no operation changes or removes a points_ledger
\* row that exists.
C22_LedgerAppendSoleWriter ==
    LET old == result.before.points_ledger
    IN result.op # "none" =>
           /\ Len(db.points_ledger) >= Len(old)
           /\ SubSeq(db.points_ledger, 1, Len(old)) = old
           /\ result.op # "add_points" =>
                  \A u \in UserIds :
                      db.users[u].total_points = result.before.users[u].total_points

\* the day number handed to the video verification
day_number(d, plant_id, day) ==
    LET streak_info == get_streak_info(d, plant_id)
    IN IF streak_info.present /\ streak_info.last_watered_date # NoDate
          /\ streak_info.last_watered_date = day - 1
       THEN streak_info.current_streak + 1
       ELSE 1

WateringResponse(d, http, status, s, total) ==
    [db |-> d, http |-> http, status |-> status, streak |-> s, total_points |-> total]

\* POST /plants/{plant_id}/water
record_watering(d, be, svc, plant_id, day, video, fault) ==
    LET plant == get_plant(d, plant_id)
    IN IF ~plant.present THEN WateringResponse(d, 500, "not_found", NoStreakRet, 0)
       ELSE IF svc.plant_verification /\ ~plant.fingerprint_data
            THEN WateringResponse(d, 200, "no_fingerprint", NoStreakRet, 0)
       ELSE IF svc.plant_verification /\ video = "error"
            THEN WateringResponse(d, 200, "verification_failed", NoStreakRet, 0)
       ELSE IF svc.plant_verification /\ video = "not_verified"
            THEN WateringResponse(d, 200, "not_verified", NoStreakRet, 0)
       ELSE
         LET streak_result == update_watering_streak(d, be, plant_id, day)
             total_points == 5 + streak_result.ret.bonus_points
             act == IF fault = "record_activity" THEN Raised(streak_result.db)
                    ELSE record_activity(streak_result.db, be, plant_id, plant.user_id,
                                         "watering", total_points)
             pts == IF fault = "add_points" THEN Raised(act.db)
                    ELSE add_points(act.db, be, NewTransactionId(act.db), plant.user_id,
                                    total_points, "watering", plant_id)
         IN IF ~streak_result.ok
            THEN WateringResponse(d, 500, "streak_error", NoStreakRet, 0)
            ELSE IF ~act.ok
            THEN WateringResponse(streak_result.db, 500, "activity_error",
                                  streak_result.ret, 0)
            ELSE IF ~pts.ok
            THEN WateringResponse(act.db, 500, "points_error", streak_result.ret, 0)
            ELSE IF ~streak_result.ret.has_total_waterings
            THEN WateringResponse(pts.db, 500, "key_error", streak_result.ret,
                                  pts.ret.total_points)
            ELSE WateringResponse(pts.db, 200, "success", streak_result.ret,
                                  pts.ret.total_points)

ApiRecordWatering(p, video, fault, gps) ==
    /\ Len(db.points_ledger) < MaxLedger
    /\ Len(db.activities) < MaxActivities
    /\ LET r == record_watering(db, backend, services, p, today, video, fault)
       IN /\ db' = r.db
          /\ result' = [NoResult EXCEPT !.op = "record_watering", !.http = r.http,
                                        !.ok = r.http = 200, !.status = r.status,
                                        !.plant_id = p, !.streak = r.streak,
                                        !.total_points = r.total_points,
                                        !.day_number = day_number(db, p, today),
                                        !.fault = fault, !.gps = gps,
                                        !.before = db, !.day = today]
    /\ UNCHANGED <<backend, services, today, procs, hist>>

InitWater ==
    /\ InitApi
    /\ services \in {[NoServices EXCEPT !.plant_verification = v,
                                         !.geo_verification = v] : v \in BOOLEAN}

NextWater ==
    \/ \E p \in PlantIds : ApiRegisterPlant(StreakOwner, p, Origin)
    \/ \E p \in PlantIds : UpdatePlantFingerprint(p)
    \/ \E p \in PlantIds, video \in VideoVerdicts, fault \in Faults :
           ApiRecordWatering(p, video, fault, Origin)
    \/ AdvanceDay(MaxWaterDay)

SpecWater == InitWater /\ [][NextWater]_vars

\* the last request was a watering that passed verification and reached the
\* streak update
WateringReachedStreak ==
    /\ result.op = "record_watering"
    /\ result.status \in {"activity_error", "points_error", "key_error", "success"}

OwnerOf(d, p) == d.plants[p].user_id

\* C2: a second verified watering of a plant on the same date leaves
\* current_streak, total_waterings and the owner's ledger totals unchanged: no
\* points_ledger row is appended and users.total_points keeps its value.
C2_SameDayWateringNoEffect ==
    (/\ WateringReachedStreak
     /\ result.before.streaks[result.plant_id].last_watered_date = result.day) =>
        LET p == result.plant_id
            u == OwnerOf(db, p)
        IN /\ db.streaks[p].current_streak = result.before.streaks[p].current_streak
           /\ db.streaks[p].total_waterings = result.before.streaks[p].total_waterings
           /\ db.points_ledger = result.before.points_ledger
           /\ db.users[u].total_points = result.before.users[u].total_points

\* C10: a watering is all-or-nothing: when record_activity or add_points fails
\* after update_watering_streak succeeded, the streak row is back at the values
\* it had before the request.
C10_WateringAllOrNothing ==
    (/\ result.op = "record_watering"
     /\ result.status \in {"activity_error", "points_error"}) =>
        db.streaks[result.plant_id] = result.before.streaks[result.plant_id]

\* C28: a record_watering request that ends with an error response has
\* credited no points and recorded no activity: every watering ledger credit
\* is reported as a success, whether the streak row was missing, the watering
\* was a same-day duplicate or the streak was updated (stated for requests
\* in which no database call failed).
C28_ErrorMeansNoCredit ==
    (result.op = "record_watering" /\ result.http # 200 /\ result.fault = "none") =>
        /\ db.points_ledger = result.before.points_ledger
        /\ db.users = result.before.users
        /\ db.activities = result.before.activities

\* ------------------------------------------- watering, both clock readings
\* record_watering reads date.today() for the day number, runs the video
\* verification, and update_watering_streak reads date.today() again: the
\* date of the second reading is that of the first or the day after
ApiRecordWateringAcrossDays(p, video, fault, days_later) ==
    /\ today + days_later <= MaxWaterDay
    /\ Len(db.points_ledger) < MaxLedger
    /\ Len(db.activities) < MaxActivities
    /\ LET r == record_watering(db, backend, services, p, today + days_later, video, fault)
       IN /\ db' = r.db
          /\ result' = [NoResult EXCEPT !.op = "record_watering", !.http = r.http,
                                        !.ok = r.http = 200, !.status = r.status,
                                        !.plant_id = p, !.streak = r.streak,
                                        !.total_points = r.total_points,
                                        !.day_number = day_number(db, p, today),
                                        !.fault = fault,
                                        !.before = db, !.day = today]
    /\ today' = today + days_later
    /\ UNCHANGED <<backend, services, procs, hist>>

NextClock ==
    \/ ApiRegisterPlant(StreakOwner, StreakPlant, Origin)
    \/ UpdatePlantFingerprint(StreakPlant)
    \/ \E video \in VideoVerdicts, fault \in Faults, days_later \in {0, 1} :
           ApiRecordWateringAcrossDays(StreakPlant, video, fault, days_later)
    \/ AdvanceDay(MaxWaterDay)

SpecClock == InitWater /\ [][NextClock]_vars

\* C24: the day-number computation of record_watering changes no streak
\* field, and whenever the update_watering_streak call that follows it is not
\* a same-day duplicate, the day number equals the current_streak that call
\* returns.
C24_DayNumberIsNextStreak ==
    result.op = "record_watering" =>
        /\ ~WateringReachedStreak =>
               db.streaks[result.plant_id] = result.before.streaks[result.plant_id]
        /\ (WateringReachedStreak /\ ~result.streak.already_watered) =>
               result.day_number = result.streak.current_streak

\* ------------------------------------------ planting photo and location gate
\* GeoVerificationAI._haversine_distance for two fixes on one meridian:
\* R * c with c the difference of the latitudes in radians, in metres
haversine_distance(lat1, lat2) == IF lat2 >= lat1 THEN lat2 - lat1 ELSE lat1 - lat2

DefaultRadiusMeters == 50

\* GeoVerificationAI.verify_against_profile; the profile upload_planting_photo
\* builds has no verification_radius_meters, so the default radius applies
verify_against_profile(profile_latitude, new_latitude) ==
    LET max_distance == DefaultRadiusMeters
        distance == haversine_distance(profile_latitude, new_latitude)
    IN [verification_passed |-> distance <= max_distance,
        distance_from_profile_meters |-> distance]

\* ------------------------------------------------- location consistency
RECURSIVE SumSeq(_)
SumSeq(s) == IF s = <<>> THEN 0 ELSE Head(s) + SumSeq(Tail(s))

RECURSIVE MaxSeq(_)
MaxSeq(s) == IF Len(s) = 1 THEN Head(s) ELSE Max(Head(s), MaxSeq(Tail(s)))

\* round(a / b, 2) in hundredths, halves to even
RoundHundredths(a, b) ==
    LET q == (100 * a) \div b
        r == (100 * a) % b
    IN IF 2 * r > b \/ (2 * r = b /\ q % 2 = 1) THEN q + 1 ELSE q

\* GeoVerificationAI.verify_location_consistency with the default
\* max_distance_meters; the returned dict as a function on its keys
verify_location_consistency(historical_locations) ==
    IF Len(historical_locations) < 2
    THEN [success |-> TRUE, consistent |-> TRUE,
          message |-> "Insufficient data for consistency check"]
    ELSE LET distances == [i \in 1..(Len(historical_locations) - 1) |->
                              haversine_distance(historical_locations[i],
                                                 historical_locations[i + 1])]
             inconsistencies ==
                 SelectSeq([i \in 1..Len(distances) |->
                               [day |-> i, distance_meters |-> distances[i]]],
                           LAMBDA e : e.distance_meters > DefaultRadiusMeters)
         IN [success |-> TRUE,
             consistent |-> Len(inconsistencies) = 0,
             average_distance_meters |-> RoundHundredths(SumSeq(distances), Len(distances)),
             max_distance_meters |-> 100 * MaxSeq(distances),
             threshold_meters |-> DefaultRadiusMeters,
             total_checks |-> Len(distances),
             inconsistencies_found |-> Len(inconsistencies),
             inconsistency_details |-> inconsistencies,
             fraud_risk |-> IF Len(inconsistencies) > 2 THEN "high"
                            ELSE IF Len(inconsistencies) > 0 THEN "medium"
                            ELSE "low"]

LocationHistories == UNION {[1..n -> GpsPoints] : n \in 0..MaxLocations}

InitLocations ==
    /\ backend = "postgres"
    /\ services = [NoServices EXCEPT !.plant_verification = TRUE, !.geo_verification = TRUE]
    /\ db = EmptyDb
    /\ today = 1
    /\ result \in {[NoResult EXCEPT !.locations = locs] : locs \in LocationHistories}
    /\ procs = [i \in ProcIds |-> IdleProc]
    /\ hist = NoHist

VerifyLocationConsistency ==
    /\ result.op = "none"
    /\ result' = [result EXCEPT !.op = "verify_location_consistency",
                                !.answer = verify_location_consistency(result.locations)]
    /\ UNCHANGED <<backend, services, db, today, procs, hist>>

NextLocations == VerifyLocationConsistency

SpecLocations == InitLocations /\ [][NextLocations]_vars

\* the consecutive pairs of the submitted points that lie farther apart than
\* the threshold, by the position of their second point
PairsBeyondThreshold ==
    {i \in 1..(Len(result.locations) - 1) :
        (IF result.locations[i + 1] >= result.locations[i]
         THEN result.locations[i + 1] - result.locations[i]
         ELSE result.locations[i] - result.locations[i + 1]) > 50}

\* C25: for every sequence of GPS points, of length 0 and 1 too, the answer
\* of verify_location_consistency carries consistent, the average and the
\* maximum distance and the inconsistency list; the inconsistencies are
\* exactly the consecutive pairs farther apart than the threshold, consistent
\* holds iff there are none, and the risk tier is low for 0, medium for 1 or
\* 2 and high for more than 2 inconsistencies.
C25_ConsistencyAnswer ==
    result.op = "verify_location_consistency" =>
        LET out == result.answer
            n == Cardinality(PairsBeyondThreshold)
        IN /\ {"consistent", "average_distance_meters", "max_distance_meters",
                "inconsistency_details", "fraud_risk"} \subseteq DOMAIN out
           /\ {out.inconsistency_details[k].day :
                   k \in 1..Len(out.inconsistency_details)} = PairsBeyondThreshold
           /\ Len(out.inconsistency_details) = n
           /\ out.consistent = (n = 0)
           /\ out.fraud_risk = (IF n = 0 THEN "low" ELSE IF n <= 2 THEN "medium" ELSE "high")

\* ----------------------------------------------------- planting photo
PhotoResponse(d, http, status, total) ==
    [db |-> d, http |-> http, status |-> status, total_points |-> total]

\* POST /plants/{plant_id}/planting-photo
upload_planting_photo(d, be, svc, plant_id, recognition_success, gps_latitude, fingerprint_success, fault) ==
    LET plant == get_plant(d, plant_id)
        location_check == verify_against_profile(plant.gps_latitude, gps_latitude)
        fp == IF svc.plant_verification /\ fingerprint_success
              THEN update_plant_fingerprint(d, plant_id) ELSE [ok |-> TRUE, db |-> d]
        act == IF fault = "record_activity" THEN Raised(fp.db)
               ELSE record_activity(fp.db, be, plant_id, plant.user_id, "planting_photo", 20)
        pts == IF fault = "add_points" THEN Raised(act.db)
               ELSE add_points(act.db, be, NewTransactionId(act.db), plant.user_id, 20,
                               "planting_photo", plant_id)
    IN IF ~plant.present THEN PhotoResponse(d, 500, "not_found", 0)
       ELSE IF svc.plant_recognition /\ ~recognition_success
            THEN PhotoResponse(d, 200, "plant_verification_failed", 0)
       ELSE IF svc.geo_verification /\ ~location_check.verification_passed
            THEN PhotoResponse(d, 200, "location_mismatch", 0)
       ELSE IF ~act.ok THEN PhotoResponse(fp.db, 500, "activity_error", 0)
       ELSE IF ~pts.ok THEN PhotoResponse(act.db, 500, "points_error", 0)
       ELSE PhotoResponse(pts.db, 200, "success", pts.ret.total_points)

ApiUploadPlantingPhoto(p, recognition_success, gps, fingerprint_success, fault) ==
    /\ Len(db.points_ledger) < MaxLedger
    /\ Len(db.activities) < MaxActivities
    /\ LET r == upload_planting_photo(db, backend, services, p, recognition_success, gps,
                                      fingerprint_success, fault)
       IN /\ db' = r.db
          /\ result' = [NoResult EXCEPT !.op = "upload_planting_photo", !.http = r.http,
                                        !.ok = r.status = "success", !.status = r.status,
                                        !.plant_id = p, !.total_points = r.total_points,
                                        !.points_earned = IF r.status = "success"
                                                          THEN 20 ELSE 0,
                                        !.fault = fault, !.gps = gps,
                                        !.before = db, !.day = today]
    /\ UNCHANGED <<backend, services, today, procs, hist>>

\* plant_recognition and the pair plant_verification, geo_verification are
\* each initialised or None
InitGeo ==
    /\ InitApi
    /\ services \in {[NoServices EXCEPT !.plant_recognition = r, !.plant_health = r,
                                         !.plant_verification = v,
                                         !.geo_verification = v] :
                          r \in BOOLEAN, v \in BOOLEAN}

NextGeo ==
    \/ \E g \in GpsPoints : ApiRegisterPlant(StreakOwner, StreakPlant, g)
    \/ \E recognition_success \in BOOLEAN, g \in GpsPoints,
          fingerprint_success \in BOOLEAN, fault \in Faults :
           ApiUploadPlantingPhoto(StreakPlant, recognition_success, g,
                                  fingerprint_success, fault)
    \/ \E video \in VideoVerdicts, fault \in Faults, g \in GpsPoints :
           ApiRecordWatering(StreakPlant, video, fault, g)
    \/ AdvanceDay(MaxGeoDay)

SpecGeo == InitGeo /\ [][NextGeo]_vars

\* metres between the fix of the last request and the plant's registered point
RequestDistance ==
    LET home == result.before.plants[result.plant_id].gps_latitude
    IN IF result.gps >= home THEN result.gps - home ELSE home - result.gps

\* C19: a watering whose GPS fix is farther than the plant's radius (50 m)
\* from the registered reference point is rejected with LocationMismatch
\* before the streak engine runs: neither the streak row nor the ledger changes.
C19_WateringLocationGate ==
    (/\ result.op = "record_watering"
     /\ result.before.plants[result.plant_id].present
     /\ RequestDistance > 50) =>
        /\ result.status = "location_mismatch"
        /\ db.streaks = result.before.streaks
        /\ db.points_ledger = result.before.points_ledger

\* C20: upload_planting_photo credits the 20 planting_photo points only when
\* the submitted GPS is within 50 m (inclusive) of the registered coordinates;
\* a fix farther away gets the location-mismatch answer and adds no activity
\* row and no points_ledger row.
C20_PhotoPointsOnlyNearby ==
    (/\ result.op = "upload_planting_photo"
     /\ result.before.plants[result.plant_id].present) =>
        /\ db.points_ledger # result.before.points_ledger => RequestDistance <= 50
        /\ (/\ RequestDistance > 50
            /\ result.fault = "none"
            /\ result.status # "plant_verification_failed") =>
               /\ result.status = "location_mismatch"
               /\ db.activities = result.before.activities
               /\ db.points_ledger = result.before.points_ledger

\* ------------------------------------------------------ end-to-end scenario
\* The journey JoyoAIDemo.demo_complete_workflow prints, as requests to the
\* API: registration, planting photo on day 1, one watering a day from day 2.
\* hist.script counts the requests of that sequence answered so far; it is
\* OffScript once any other request has changed the store, and the run is
\* followed up to that first departure.
OffScript == 99

ScriptStep(op, ok, changed) ==
    LET k == hist.script
    IN IF ~changed THEN k
       ELSE IF ~ok \/ k = OffScript THEN OffScript
       ELSE IF op = "register_plant" /\ k = 0 /\ today = 1 THEN 1
       ELSE IF op = "upload_planting_photo" /\ k = 1 /\ today = 1 THEN 2
       ELSE IF op = "record_watering" /\ k >= 2 /\ today = k THEN k + 1
       ELSE OffScript

ScenarioRegister(u, p, gps) ==
    /\ hist.script # OffScript
    /\ ~db.plants[p].present
    /\ Len(db.points_ledger) < MaxScenarioRows
    /\ LET r == api_register_plant(db, backend, u, p, gps)
       IN /\ db' = r.db
          /\ result' = [NoResult EXCEPT !.op = "register_plant", !.http = r.http,
                                        !.ok = r.http = 200, !.plant_id = p,
                                        !.total_points = r.total_points,
                                        !.points_earned = IF r.http = 200 THEN 30 ELSE 0,
                                        !.before = db, !.day = today]
          /\ hist' = [hist EXCEPT !.script =
                         ScriptStep("register_plant", r.http = 200, r.db # db)]
    /\ UNCHANGED <<backend, services, today, procs>>

ScenarioPhoto(p, recognition_success, gps, fingerprint_success, fault) ==
    /\ hist.script # OffScript
    /\ Len(db.points_ledger) < MaxScenarioRows
    /\ Len(db.activities) < MaxScenarioRows
    /\ LET r == upload_planting_photo(db, backend, services, p, recognition_success, gps,
                                      fingerprint_success, fault)
       IN /\ db' = r.db
          /\ result' = [NoResult EXCEPT !.op = "upload_planting_photo", !.http = r.http,
                                        !.ok = r.status = "success", !.status = r.status,
                                        !.plant_id = p, !.total_points = r.total_points,
                                        !.points_earned = IF r.status = "success"
                                                          THEN 20 ELSE 0,
                                        !.fault = fault, !.gps = gps,
                                        !.before = db, !.day = today]
          /\ hist' = [hist EXCEPT !.script =
                         ScriptStep("upload_planting_photo", r.status = "success",
                                    r.db # db)]
    /\ UNCHANGED <<backend, services, today, procs>>

ScenarioWater(p, video, fault, gps) ==
    /\ hist.script # OffScript
    /\ Len(db.points_ledger) < MaxScenarioRows
    /\ Len(db.activities) < MaxScenarioRows
    /\ LET r == record_watering(db, backend, services, p, today, video, fault)
       IN /\ db' = r.db
          /\ result' = [NoResult EXCEPT !.op = "record_watering", !.http = r.http,
                                        !.ok = r.http = 200, !.status = r.status,
                                        !.plant_id = p, !.streak = r.streak,
                                        !.total_points = r.total_points,
                                        !.points_earned = IF r.http = 200
                                                          THEN 5 + r.streak.bonus_points
                                                          ELSE 0,
                                        !.day_number = day_number(db, p, today),
                                        !.fault = fault, !.gps = gps,
                                        !.before = db, !.day = today]
          /\ hist' = [hist EXCEPT !.script =
                         ScriptStep("record_watering", r.http = 200, r.db # db)]
    /\ UNCHANGED <<backend, services, today, procs>>

ScenarioNextDay ==
    /\ today < MaxScenarioDay
    /\ today' = today + 1
    /\ UNCHANGED <<backend, services, db, result, procs, hist>>

NextScenario ==
    \/ \E g \in GpsPoints : ScenarioRegister(StreakOwner, StreakPlant, g)
    \/ \E recognition_success \in BOOLEAN, g \in GpsPoints,
          fingerprint_success \in BOOLEAN, fault \in Faults :
           ScenarioPhoto(StreakPlant, recognition_success, g, fingerprint_success, fault)
    \/ \E video \in VideoVerdicts, fault \in Faults :
           ScenarioWater(StreakPlant, video, fault, db.plants[StreakPlant].gps_latitude)
    \/ ScenarioNextDay

SpecScenario == InitGeo /\ [][NextScenario]_vars

\* C17: after registration the new user's total_points is 30, after the day-1
\* planting photo 50, after the day-7 watering 80 with current_streak 6, and
\* the day-8 watering makes current_streak 7, credits 5 + 10 = 15 points
\* (total 95) and leaves longest_streak 7.
C17_EndToEndScenario ==
    LET k == hist.script
        total == db.users[StreakOwner].total_points
        row == db.streaks[StreakPlant]
    IN /\ k = 1 => total = 30
       /\ k = 2 => total = 50
       /\ (k >= 3 /\ k <= 8) =>
              /\ total = 50 + 5 * (k - 2)
              /\ row.current_streak = k - 2
       /\ k = 8 => total = 80 /\ row.current_streak = 6
       /\ k = 9 =>
              /\ row.current_streak = 7
              /\ row.longest_streak = 7
              /\ db.points_ledger[Len(db.points_ledger)].points = 15
              /\ total = 95

C17_Witness ==
    /\ hist.script = 9
    /\ today = 8
    /\ result.op = "record_watering"
    /\ result.before.users[StreakOwner].total_points = 80
    /\ db.users[StreakOwner].total_points = 95

\* ------------------------------------------------------ health-scan throttle
ScanWindowDays == 7
ScansPerWeek == 2

\* the plant's scans recorded in the 7 days up to `now`
RecentScans(rows, p, now) ==
    Cardinality({k \in 1..Len(rows) :
                    /\ rows[k].plant_id = p
                    /\ rows[k].scan_date >= now - 7
                    /\ rows[k].scan_date <= now})

ScanLimitReached_AsOffByOne(scans_this_week) == scans_this_week > ScansPerWeek

\* "if scans_this_week >= 2: return ... 'Weekly scan limit reached'"
ScanLimitReached(scans_this_week) == scans_this_week >= ScansPerWeek

\* POST /plants/{plant_id}/health-scan, up to `await image.read()`:
\* get_plant, count_health_scans_last_days, and the early returns
ScanAdmit(i, p) ==
    /\ procs[i].pc = "idle"
    /\ LET plant == get_plant(db, p)
           scans_this_week == count_health_scans_last_days(db, p, ScanWindowDays, today)
           answer(http, status) ==
               [NoResult EXCEPT !.op = "scan_plant_health", !.http = http,
                                !.ok = FALSE, !.status = status, !.plant_id = p,
                                !.before = db, !.day = today,
                                !.ai_called = FALSE]
       IN IF ~plant.present
          THEN /\ result' = answer(500, "not_found")
               /\ UNCHANGED procs
          ELSE IF ScanLimitReached(scans_this_week)
          THEN /\ result' = answer(200, "rate_limited")
               /\ UNCHANGED procs
          ELSE /\ Len(db.health_scans) < MaxScans
               /\ procs' = [procs EXCEPT ![i] =
                               [IdleProc EXCEPT !.pc = "scanning", !.plant_id = p,
                                                !.scans_this_week = scans_this_week,
                                                !.recent_seen =
                                                    RecentScans(db.health_scans, p, today)]]
               /\ UNCHANGED result
    /\ UNCHANGED <<backend, services, db, today, hist>>

\* the rest of the handler: the AI scan, save_health_scan, record_activity,
\* add_points, the response
scan_plant_health(d, be, svc, plant_id, now, scan_success) ==
    LET plant == get_plant(d, plant_id)
        saved == save_health_scan(d, be, plant_id, now)
        act == record_activity(saved.db, be, plant_id, plant.user_id, "health_scan", 5)
        pts == add_points(act.db, be, NewTransactionId(act.db), plant.user_id, 5,
                          "health_scan", plant_id)
    IN IF svc.plant_health /\ ~scan_success
       THEN [db |-> d, http |-> 200, status |-> "scan_failed", total_points |-> 0]
       ELSE IF ~saved.ok THEN [db |-> d, http |-> 500, status |-> "error", total_points |-> 0]
       ELSE IF ~act.ok
       THEN [db |-> saved.db, http |-> 500, status |-> "error", total_points |-> 0]
       ELSE IF ~pts.ok
       THEN [db |-> act.db, http |-> 500, status |-> "error", total_points |-> 0]
       ELSE [db |-> pts.db, http |-> 200, status |-> "success",
             total_points |-> pts.ret.total_points]

ScanFinish(i, scan_success) ==
    /\ procs[i].pc = "scanning"
    /\ LET p == procs[i].plant_id
           r == scan_plant_health(db, backend, services, p, today, scan_success)
       IN /\ db' = r.db
          /\ result' = [NoResult EXCEPT !.op = "scan_plant_health", !.http = r.http,
                                        !.ok = r.status = "success",
                                        !.status = r.status, !.plant_id = p,
                                        !.total_points = r.total_points,
                                        !.points_earned = IF r.status = "success"
                                                          THEN 5 ELSE 0,
                                        !.before = db, !.day = today,
                                        !.ai_called = services.plant_health]
    /\ procs' = [procs EXCEPT ![i] = IdleProc]
    /\ UNCHANGED <<backend, services, today, hist>>

InitScan ==
    /\ InitApi
    /\ services \in {[NoServices EXCEPT !.plant_health = v, !.plant_recognition = v] :
                          v \in BOOLEAN}

NextScan ==
    \/ ApiRegisterPlant(StreakOwner, StreakPlant, Origin)
    \/ \E i \in ProcIds, p \in PlantIds : ScanAdmit(i, p)
    \/ \E i \in ProcIds, scan_success \in BOOLEAN : ScanFinish(i, scan_success)
    \/ AdvanceDay(MaxScanDay)

SpecScan == InitScan /\ [][NextScan]_vars

\* C6: with 2 health_scans rows of the plant in the last 7 days a further scan
\* request is rejected as rate-limited before the AI call, and the rejection
\* adds no health_scans, activities or points_ledger row and leaves
\* users.total_points as it was.
C6_ThirdScanRejectedCleanly ==
    /\ \A i \in ProcIds :
           procs[i].pc = "scanning" => procs[i].recent_seen < 2
    /\ result.status = "rate_limited" =>
           /\ RecentScans(result.before.health_scans, result.plant_id, result.day) >= 2
           /\ db.health_scans = result.before.health_scans
           /\ db.activities = result.before.activities
           /\ db.points_ledger = result.before.points_ledger
           /\ db.users = result.before.users
           /\ ~result.ai_called

C6_Witness ==
    /\ result.status = "rate_limited"
    /\ RecentScans(db.health_scans, result.plant_id, today) = 2
    /\ \E k \in 1..Len(db.points_ledger) : db.points_ledger[k].transaction_type = "health_scan"

\* C7: under any interleaving of concurrent scan requests for a plant, the
\* health_scans rows of that plant inside any trailing 7-day window number at
\* most 2.
C7_AtMostTwoScansPerWindow ==
    \A p \in PlantIds : \A w \in 1..(MaxScanDay + 7) :
        RecentScans(db.health_scans, p, w) <= 2

\* ------------------------------------------------ fraud check and aggregator
\* dict.get(key, default) on a dict held as a function from keys
DictGet(dict, key, default) == IF key \in DOMAIN dict THEN dict[key] ELSE default

Deduction_AsMildImplausible(indicator) ==
    IF indicator = "spike" THEN DoubleOfTenths[3]
    ELSE IF indicator = "frequent" THEN DoubleOfTenths[4]
    ELSE IF indicator = "low_rate" THEN DoubleOfTenths[3]
    ELSE DoubleOfTenths[4]

\* the literals of the four "confidence -= x" statements
Deduction(indicator) ==
    IF indicator = "spike" THEN DoubleOfTenths[3]
    ELSE IF indicator = "frequent" THEN DoubleOfTenths[4]
    ELSE IF indicator = "low_rate" THEN DoubleOfTenths[3]
    ELSE DoubleOfTenths[6]

\* "confidence -= x" when the indicator is raised
Deduct(confidence, raised, indicator) ==
    IF raised THEN DblSub(confidence, Deduction(indicator)) ELSE confidence

\* the statements after the last deduction: recommendation and returned dict
ScoreOf(confidence, fraud_indicators) ==
    [confidence |-> DblMax(DblZero, confidence),
     recommendation |-> IF DblLess(confidence, DoubleOfTenths[5]) THEN "reject"
                        ELSE IF DblLess(confidence, DoubleOfTenths[8])
                        THEN "manual_review"
                        ELSE "approve",
     fraud_indicators |-> fraud_indicators,
     validation_type |-> "fraud_detection"]

\* confidence after the four checks, subtracted in the order of the code, for
\* each combination of raised indicators
ConfidenceAfterChecks ==
    [spike \in BOOLEAN, frequent \in BOOLEAN, low_rate \in BOOLEAN, implausible \in BOOLEAN |->
        Deduct(Deduct(Deduct(Deduct(DblOne, spike, "spike"),
                             frequent, "frequent"),
                      low_rate, "low_rate"),
               implausible, "implausible")]

\* EnhancedAIValidator._detect_fraud_patterns
detect_fraud_patterns(trees, historical_data) ==
    LET spike == historical_data.present /\ historical_data.avg_trees_per_day > 0
                 /\ trees > historical_data.avg_trees_per_day * 3
        frequent == historical_data.present /\ historical_data.verifications_last_24h > 10
        low_rate == historical_data.present /\ historical_data.success_rate < 50
        implausible == trees > 500
        fraud_indicators == Len(SelectSeq(<<spike, frequent, low_rate, implausible>>,
                                          LAMBDA raised : raised))
    IN ScoreOf(ConfidenceAfterChecks[spike, frequent, low_rate, implausible],
               fraud_indicators)

\* ------------------------------------------------- fraud scorer on its own
ScorerTrees == {300, 301, 500, 501, 600}

ScorerHistories ==
    {NoHistory} \cup
    {[present |-> TRUE, avg_trees_per_day |-> a, verifications_last_24h |-> v,
      success_rate |-> r] : a \in {0, 100, 200}, v \in {0, 10, 11}, r \in {49, 50, 100}}

InitScorer ==
    /\ backend = "postgres"
    /\ services = NoServices
    /\ db = EmptyDb
    /\ today = 1
    /\ result \in {[NoResult EXCEPT !.score.trees = t, !.score.historical_data = h] :
                      t \in ScorerTrees, h \in ScorerHistories}
    /\ procs = [i \in ProcIds |-> IdleProc]
    /\ hist = NoHist

DetectFraudPatterns ==
    /\ result.op = "none"
    /\ LET r == detect_fraud_patterns(result.score.trees, result.score.historical_data)
       IN result' = [result EXCEPT !.op = "detect_fraud_patterns",
                                   !.score.confidence = r.confidence,
                                   !.score.recommendation = r.recommendation,
                                   !.score.fraud_indicators = r.fraud_indicators]
    /\ UNCHANGED <<backend, services, db, today, procs, hist>>

NextScorer == DetectFraudPatterns

SpecScorer == InitScorer /\ [][NextScorer]_vars

\* 1.0 minus the triggered deductions in exact tenths, clamped to [0, 1]
ExactTenths(trees, h) ==
    LET sum == (IF h.present /\ h.avg_trees_per_day > 0 /\ trees > 3 * h.avg_trees_per_day
                THEN 2 ELSE 0)
               + (IF h.present /\ h.verifications_last_24h > 10 THEN 3 ELSE 0)
               + (IF h.present /\ h.success_rate < 50 THEN 2 ELSE 0)
               + (IF trees > 500 THEN 5 ELSE 0)
    IN IF sum >= 10 THEN 0 ELSE 10 - sum

\* |a - b| <= 2^-53 for two non-negative doubles
WithinRounding(a, b) ==
    LET d == IF MagLess(a, b) THEN MagSub(b, a) ELSE MagSub(a, b)
    IN d.hi = 0 /\ d.lo <= 4

\* C18: the scorer's confidence is 1.0 minus the triggered deductions
\* (0.2 spike, 0.3 more than 10 verifications in 24h, 0.2 success rate below
\* 50, 0.5 more than 500 trees) clamped to [0, 1], up to the rounding of the
\* float subtractions; the recommendation is reject below 0.4, manual_review
\* from 0.4 to below 0.7 and approve otherwise, on the returned confidence as
\* on the exact value; 600 trees give confidence <= 0.5 and never approve.
C18_ScorerConfidenceAndThresholds ==
    result.op = "detect_fraud_patterns" =>
        LET sc == result.score
            t == ExactTenths(sc.trees, sc.historical_data)
        IN /\ ~sc.confidence.neg
           /\ ~DblLess(DblOne, sc.confidence)
           /\ WithinRounding(sc.confidence, DoubleOfTenths[t + 1])
           /\ sc.recommendation =
                  (IF DblLess(sc.confidence, DoubleOfTenths[5]) THEN "reject"
                   ELSE IF DblLess(sc.confidence, DoubleOfTenths[8]) THEN "manual_review"
                   ELSE "approve")
           /\ sc.recommendation =
                  (IF t < 4 THEN "reject" ELSE IF t < 7 THEN "manual_review" ELSE "approve")
           /\ sc.trees = 600 =>
                  /\ ~DblLess(DoubleOfTenths[6], sc.confidence)
                  /\ sc.recommendation # "approve"

C18_Witness ==
    /\ result.op = "detect_fraud_patterns"
    /\ result.score.trees = 600
    /\ result.score.historical_data = NoHistory
    /\ result.score.confidence = DoubleOfTenths[6]
    /\ result.score.recommendation = "manual_review"

\* what the GPT-4 plausibility call can give back
GptAnswers == {"approve", "reject", "manual_review", "missing", "exception"}

\* EnhancedAIValidator._validate_plausibility
validate_plausibility(gpt) ==
    IF gpt = "exception"
    THEN [confidence |-> DoubleOfTenths[6], recommendation |-> "manual_review",
          validation_type |-> "plausibility"]
    ELSE IF gpt = "missing"
    THEN [confidence |-> DoubleOfTenths[6], validation_type |-> "plausibility"]
    ELSE [confidence |-> DoubleOfTenths[6], recommendation |-> gpt,
          validation_type |-> "plausibility"]

aggregate_validations_AsMissingApproves(validations) ==
    LET recommendations == {DictGet(validations[k], "recommendation", "approve") :
                               k \in 1..Len(validations)}
        final_recommendation == IF "reject" \in recommendations THEN "reject"
                                ELSE IF "manual_review" \in recommendations
                                THEN "manual_review"
                                ELSE "approve"
    IN [valid |-> final_recommendation = "approve",
        recommendation |-> final_recommendation]

\* EnhancedAIValidator._aggregate_validations
aggregate_validations(validations) ==
    LET recommendations == {DictGet(validations[k], "recommendation", "manual_review") :
                               k \in 1..Len(validations)}
        final_recommendation == IF "reject" \in recommendations THEN "reject"
                                ELSE IF "manual_review" \in recommendations
                                THEN "manual_review"
                                ELSE "approve"
    IN [valid |-> final_recommendation = "approve",
        recommendation |-> final_recommendation]

\* ---- aggregation of sub-validations, every list of them ----

MaxValidations == 3

\* "overall_confidence = sum(confidences) / len(confidences) if confidences
\* else 0.5", then round(overall_confidence, 2); confidences in hundredths
overall_confidence(validations) ==
    IF Len(validations) = 0 THEN 50
    ELSE RoundHundredths(SumSeq([k \in 1..Len(validations) |->
                                    DictGet(validations[k], "confidence", 50)]),
                         100 * Len(validations))

\* a sub-validation is the JSON object a validator returned: the keys
\* confidence and recommendation may be absent, and the recommendation of a
\* GPT answer is whatever string the JSON carries
SubValidations ==
    LET confs == {[confidence |-> c] : c \in {0, 50, 100}} \cup {<<>>}
        recs == {[recommendation |-> r] :
                    r \in {"approve", "reject", "manual_review", "uncertain"}} \cup {<<>>}
    IN {c @@ r @@ [validation_type |-> "plausibility"] : c \in confs, r \in recs}

ValidationLists == UNION {[1..n -> SubValidations] : n \in 1..MaxValidations}

InitAggregate ==
    /\ backend = "postgres"
    /\ services = NoServices
    /\ db = EmptyDb
    /\ today = 1
    /\ result \in {[NoResult EXCEPT !.validations = v] : v \in ValidationLists}
    /\ procs = [i \in ProcIds |-> IdleProc]
    /\ hist = NoHist

AggregateValidations ==
    /\ result.op = "none"
    /\ result' = [result EXCEPT
                    !.op = "_aggregate_validations",
                    !.answer = aggregate_validations(result.validations)
                               @@ [confidence |-> overall_confidence(result.validations)]]
    /\ UNCHANGED <<backend, services, db, today, procs, hist>>

NextAggregate == AggregateValidations

SpecAggregate == InitAggregate /\ [][NextAggregate]_vars

\* the recommendations the sub-validations carry, a missing one read as
\* manual_review
CarriedRecommendations ==
    {IF "recommendation" \in DOMAIN result.validations[k]
     THEN result.validations[k].recommendation ELSE "manual_review" :
        k \in 1..Len(result.validations)}

\* C26: for every non-empty list of sub-validations _aggregate_validations
\* returns reject if any sub-validation recommends reject, else manual_review
\* if any recommends manual_review or carries no recommendation, else
\* approve; valid is true iff the final recommendation is approve, whatever
\* the averaged confidence is
C26_MostConservativeRecommendation ==
    result.op = "_aggregate_validations" =>
        /\ (\E k \in 1..Len(result.validations) :
                "recommendation" \in DOMAIN result.validations[k]
                /\ result.validations[k].recommendation = "reject")
           => result.answer.recommendation = "reject"
        /\ (~("reject" \in CarriedRecommendations) /\ "manual_review" \in CarriedRecommendations)
           => result.answer.recommendation = "manual_review"
        /\ (~("reject" \in CarriedRecommendations) /\ ~("manual_review" \in CarriedRecommendations))
           => result.answer.recommendation = "approve"
        /\ result.answer.valid = (result.answer.recommendation = "approve")

\* a sub-validation without a recommendation, next to approving ones of full
\* confidence, holds the answer at manual_review and not valid
C26_Witness ==
    /\ result.op = "_aggregate_validations"
    /\ Len(result.validations) = MaxValidations
    /\ \E k \in 1..Len(result.validations) :
           ~("recommendation" \in DOMAIN result.validations[k])
    /\ \A k \in 1..Len(result.validations) :
           "recommendation" \in DOMAIN result.validations[k]
           => result.validations[k].recommendation = "approve"
    /\ result.answer.confidence = 100
    /\ result.answer.recommendation = "manual_review"
    /\ ~result.answer.valid

\* EnhancedAIValidator._mock_validation
mock_validation(trees) ==
    LET valid == trees <= 100 /\ trees > 0
    IN [valid |-> valid,
        recommendation |-> IF valid THEN "approve" ELSE "manual_review"]

\* EnhancedAIValidator.validate_comprehensive as fraud_check calls it:
\* no image, no weather, no historical data
validate_comprehensive(validator, trees, gpt) ==
    IF validator = "no_client" THEN mock_validation(trees)
    ELSE aggregate_validations(<<validate_plausibility(gpt),
                                 detect_fraud_patterns(trees, NoHistory)>>)

\* POST /verify/fraud-check
fraud_check(svc, trees, gpt) ==
    IF svc.ai_validator = "none"
    THEN [valid |-> TRUE, recommendation |-> "approve"]
    ELSE LET res == validate_comprehensive(svc.ai_validator, trees, gpt)
         IN [valid |-> DictGet(res, "overall_valid", TRUE),
             recommendation |-> DictGet(res, "recommendation", "approve")]

Count(b) == IF b THEN 1 ELSE 0

verification_passed_AsBiometricCounted(passed_stages, has_biometric) ==
    passed_stages + Count(has_biometric) >= 3

\* "verification_passed = passed_stages >= 3  # At least 3 critical stages"
verification_passed(passed_stages, has_biometric) == passed_stages >= 3

\* db.save_plant_image: JoyoDatabase defines no such method, the call raises
save_plant_image(d, plant_id) == Raised(d)

\* POST /verify/complete
complete_unified_verification(d, be, svc, in) ==
    LET recognition_success == IF svc.plant_recognition THEN in.recognition_success ELSE TRUE
        health_success == IF svc.plant_health THEN in.health_success ELSE TRUE
        has_biometric == IF in.biometric_signature /\ in.gesture_count > 0
                         THEN in.gesture_confidence >= 70 ELSE FALSE
        fraud_result == fraud_check(svc, in.trees_planted, in.gpt)
        passed_stages == Count(recognition_success) + Count(health_success)
                         + Count(fraud_result.valid)
        passed == verification_passed(passed_stages, has_biometric)
        nft_attempted == passed /\ svc.ALGORAND_AVAILABLE
        total_points == 30 + 20 + 5 + (IF has_biometric THEN 10 ELSE 0)
        reg == register_plant(d, be, in.plant_id, in.user_id, Origin)
        img == save_plant_image(reg.db, in.plant_id)
        pts == add_points(img.db, be, NewTransactionId(img.db), in.user_id, total_points,
                          "complete_verification", in.plant_id)
        saved == IF ~passed THEN [db |-> d, points_earned |-> 0]
                 ELSE IF ~reg.ok THEN [db |-> d, points_earned |-> 0]
                 ELSE IF ~img.ok THEN [db |-> reg.db, points_earned |-> 0]
                 ELSE IF ~pts.ok THEN [db |-> img.db, points_earned |-> 0]
                 ELSE [db |-> pts.db, points_earned |-> total_points]
    IN [db |-> saved.db,
        verification |->
            [overall_status |-> IF passed THEN "approved" ELSE "rejected",
             success |-> passed,
             recognition_success |-> recognition_success,
             health_success |-> health_success,
             fraud_valid |-> fraud_result.valid,
             fraud_recommendation |-> fraud_result.recommendation,
             has_biometric |-> has_biometric,
             passed_stages |-> passed_stages + Count(has_biometric),
             critical_stages_passed |-> passed_stages >= 3,
             nft_attempted |-> nft_attempted,
             points_earned |-> saved.points_earned]]

\* f"PLANT_{uuid4().hex[:8].upper()}": an id no stored plant has
NewPlantId(d) ==
    CHOOSE p \in PlantIds :
        /\ ~d.plants[p].present
        /\ \A q \in PlantIds : q < p => d.plants[q].present

\* the optional biometric form fields: absent, no gestures, below and at the
\* 70.0 confidence threshold
BiometricForms ==
    {[biometric_signature |-> FALSE, gesture_count |-> 0, gesture_confidence |-> 0],
     [biometric_signature |-> TRUE, gesture_count |-> 0, gesture_confidence |-> 70],
     [biometric_signature |-> TRUE, gesture_count |-> 3, gesture_confidence |-> 69],
     [biometric_signature |-> TRUE, gesture_count |-> 3, gesture_confidence |-> 70]}

VerificationInputs ==
    {core @@ bio :
        core \in [user_id : {StreakOwner, MaxUsers},
                  recognition_success : BOOLEAN, health_success : BOOLEAN,
                  trees_planted : {1, 101, 501},
                  gpt : GptAnswers],
        bio \in BiometricForms}

ApiCompleteVerification(form) ==
    /\ \E p \in PlantIds : ~db.plants[p].present
    /\ hist.nft_mints < MaxMints
    /\ LET in == [plant_id |-> NewPlantId(db)] @@ form
           r == complete_unified_verification(db, backend, services, in)
       IN /\ db' = r.db
          /\ result' = [NoResult EXCEPT !.op = "complete_verification", !.http = 200,
                                        !.ok = r.verification.success,
                                        !.plant_id = in.plant_id,
                                        !.user_id = in.user_id,
                                        !.verification = r.verification,
                                        !.before = db, !.day = today]
          /\ hist' = IF r.verification.nft_attempted
                     THEN [hist EXCEPT !.nft_mints = @ + 1] ELSE hist
    /\ UNCHANGED <<backend, services, today, procs>>

InitVerify ==
    /\ InitApi
    /\ services \in {[plant_recognition |-> ai, plant_health |-> ai,
                       plant_verification |-> FALSE, geo_verification |-> FALSE,
                       ai_validator |-> v,
                       ALGORAND_AVAILABLE |-> nft] :
                          ai \in BOOLEAN, v \in {"none", "no_client", "client"},
                          nft \in BOOLEAN}

NextVerify ==
    \/ \E u \in UserIds : CreateUser(u)
    \/ \E form \in VerificationInputs : ApiCompleteVerification(form)

SpecVerify == InitVerify /\ [][NextVerify]_vars

\* C27: every approved complete verification registers exactly one plant for
\* the user and appends exactly one complete_verification ledger row of 55
\* points, 65 when the biometric check passed, and the user's total_points
\* grows by that amount (stated for a user that is registered).
C27_ApprovedVerificationCredits ==
    (/\ result.op = "complete_verification"
     /\ result.verification.success
     /\ result.before.users[result.user_id].present) =>
        LET amount == IF result.verification.has_biometric THEN 65 ELSE 55
            before == result.before
        IN /\ ~before.plants[result.plant_id].present
           /\ db.plants[result.plant_id].present
           /\ db.plants[result.plant_id].user_id = result.user_id
           /\ Len(db.points_ledger) = Len(before.points_ledger) + 1
           /\ LET row == db.points_ledger[Len(db.points_ledger)]
              IN /\ row.transaction_type = "complete_verification"
                 /\ row.user_id = result.user_id
                 /\ row.points = amount
           /\ db.users[result.user_id].total_points
                  = before.users[result.user_id].total_points + amount

\* C8: a reject recommendation of the fraud sub-validator forces the overall
\* outcome to reject whatever the critical checks say (not approved, no NFT
\* mint attempted, no plant registered, no points credited), and an overall
\* approve requires that no sub-validator recommends manual_review.
C8_FraudRejectOverrides ==
    result.op = "complete_verification" =>
        /\ result.verification.fraud_recommendation = "reject" =>
               /\ result.verification.overall_status = "rejected"
               /\ ~result.verification.nft_attempted
               /\ db.plants = result.before.plants
               /\ db.points_ledger = result.before.points_ledger
        /\ result.verification.overall_status = "approved" =>
               result.verification.fraud_recommendation # "manual_review"

\* C9: the complete verification is approved iff all 3 tracked critical checks
\* (plant recognition success, health scan success, fraud check valid) pass;
\* the optional biometric check never counts, and overall_status is
\* 'approved' exactly when the quorum is met and 'rejected' otherwise.
C9_ApprovedIffQuorum ==
    result.op = "complete_verification" =>
        LET v == result.verification
            quorum == Count(v.recognition_success) + Count(v.health_success)
                      + Count(v.fraud_valid) >= 3
        IN /\ v.overall_status = (IF quorum THEN "approved" ELSE "rejected")
           /\ v.success = quorum

C9_Witness ==
    /\ result.op = "complete_verification"
    /\ result.verification.has_biometric
    /\ ~result.verification.recognition_success
    /\ result.verification.health_success
    /\ result.verification.fraud_valid
    /\ result.verification.overall_status = "rejected"


\* ---- JoyoDatabase.__init__ (PostgreSQL): the connect-and-retry loop ----

MaxRetries == 3

\* DB_CONNECT_RETRIES = int(os.getenv("DB_CONNECT_RETRIES", "5")), here every
\* value from 0 up to the bound
RetrySettings == 0..MaxRetries

ShouldSleep_AsAlways(attempts, retries) == TRUE

\* "if attempts < DB_CONNECT_RETRIES: time.sleep(...)"
ShouldSleep(attempts, retries) == attempts < retries

\* one process at the start of __init__: attempts = 0, no connection_pool
\* attribute yet; calls and sleeps count the SimpleConnectionPool calls and
\* the time.sleep calls made so far
NewConstructor(retries) ==
    [pc |-> "while", DB_CONNECT_RETRIES |-> retries, attempts |-> 0,
     connection_pool |-> FALSE, calls |-> 0, sleeps |-> 0,
     init_database |-> FALSE]

InitConnect ==
    /\ backend = "postgres"
    /\ services = NoServices
    /\ db = EmptyDb
    /\ today = 1
    /\ result = NoResult
    /\ procs \in {[i \in ProcIds |-> NewConstructor(r)] : r \in RetrySettings}
    /\ hist = NoHist

\* "while attempts < DB_CONNECT_RETRIES:"
ConstructorWhile(i) ==
    /\ procs[i].pc = "while"
    /\ procs' = [procs EXCEPT ![i].pc =
                    IF procs[i].attempts < procs[i].DB_CONNECT_RETRIES
                    THEN "connect" ELSE "check"]
    /\ UNCHANGED <<backend, services, db, today, result, hist>>

\* the try block: SimpleConnectionPool(...) returns (break) or raises
\* (attempts += 1, then the sleep decision)
ConstructorConnect(i, connected) ==
    /\ procs[i].pc = "connect"
    /\ procs' = [procs EXCEPT ![i] =
                    IF connected
                    THEN [@ EXCEPT !.calls = @ + 1, !.connection_pool = TRUE,
                                   !.pc = "check"]
                    ELSE [@ EXCEPT !.calls = @ + 1, !.attempts = @ + 1,
                                   !.pc = IF ShouldSleep(procs[i].attempts + 1,
                                                         procs[i].DB_CONNECT_RETRIES)
                                          THEN "sleep" ELSE "while"]]
    /\ UNCHANGED <<backend, services, db, today, result, hist>>

\* time.sleep(DB_CONNECT_RETRY_INTERVAL_SEC) returns
ConstructorSleep(i) ==
    /\ procs[i].pc = "sleep"
    /\ procs' = [procs EXCEPT ![i].sleeps = @ + 1, ![i].pc = "while"]
    /\ UNCHANGED <<backend, services, db, today, result, hist>>

\* "if not getattr(self, 'connection_pool', None): raise RuntimeError(...)"
ConstructorCheck(i) ==
    /\ procs[i].pc = "check"
    /\ procs' = [procs EXCEPT ![i].pc =
                    IF procs[i].connection_pool THEN "init_database" ELSE "RuntimeError"]
    /\ UNCHANGED <<backend, services, db, today, result, hist>>

\* self.init_database()
ConstructorInitDatabase(i) ==
    /\ procs[i].pc = "init_database"
    /\ procs' = [procs EXCEPT ![i].init_database = TRUE, ![i].pc = "constructed"]
    /\ UNCHANGED <<backend, services, db, today, result, hist>>

NextConnect ==
    \/ \E i \in ProcIds : ConstructorWhile(i)
    \/ \E i \in ProcIds, connected \in BOOLEAN : ConstructorConnect(i, connected)
    \/ \E i \in ProcIds : ConstructorSleep(i)
    \/ \E i \in ProcIds : ConstructorCheck(i)
    \/ \E i \in ProcIds : ConstructorInitDatabase(i)

\* every call the constructor makes returns or raises, and each process keeps
\* running
SpecConnect ==
    InitConnect /\ [][NextConnect]_vars
    /\ \A i \in ProcIds :
          WF_vars(ConstructorWhile(i) \/ ConstructorSleep(i) \/ ConstructorCheck(i)
                  \/ ConstructorInitDatabase(i)
                  \/ \E connected \in BOOLEAN : ConstructorConnect(i, connected))

ConstructorEnded(i) == procs[i].pc \in {"constructed", "RuntimeError"}

ConstructorBounds(i) ==
    LET c == procs[i]
        retries == c.DB_CONNECT_RETRIES
        failed == c.attempts
    IN /\ c.calls <= retries
       /\ c.calls = failed + (IF c.connection_pool THEN 1 ELSE 0)
       /\ c.sleeps <= failed
       /\ c.init_database => c.connection_pool
       /\ c.pc = "init_database" => c.connection_pool
       /\ c.pc = "RuntimeError" => (~c.connection_pool /\ c.calls = retries)
       /\ c.pc \in {"check", "init_database", "constructed", "RuntimeError"} =>
              c.sleeps = (IF c.connection_pool \/ failed = 0 THEN failed ELSE failed - 1)
       /\ c.pc = "constructed" => c.init_database

\* C29: JoyoDatabase.__init__ terminates for every DB_CONNECT_RETRIES >= 0;
\* it makes at most DB_CONNECT_RETRIES connection attempts, stops at the first
\* success, sleeps after every failed attempt except the last allowed one,
\* ends in RuntimeError when no attempt succeeded, and runs init_database only
\* once a connection pool exists.
C29_ConstructorTerminates ==
    /\ [](\A i \in ProcIds : ConstructorBounds(i))
    /\ \A i \in ProcIds : <>ConstructorEnded(i)

\* one constructor connected on its last allowed attempt after sleeping
\* between the failed ones, the other gave up with RuntimeError
C29_Witness ==
    \E i, j \in ProcIds :
        /\ procs[i].pc = "constructed"
        /\ procs[i].DB_CONNECT_RETRIES = MaxRetries
        /\ procs[i].calls = MaxRetries
        /\ procs[i].sleeps = MaxRetries - 1
        /\ procs[j].pc = "RuntimeError"
        /\ procs[j].calls = MaxRetries
        /\ procs[j].sleeps = MaxRetries - 1


\* ---- x402_required: the payment gate around a protected endpoint ----

\* the endpoints the startup block configures on x402_server before app.run
ConfiguredEndpoints == {"/api/v1/verify-plant", "/api/v1/health-scan", "/api/v1/remedy"}

\* request.headers.get('X-PAYMENT'): no header, an empty one, a payment
PaymentHeaders == {"absent", "empty", "payment"}

\* what the facilitator call comes back with: HTTP 200 with isValid / success
\* true or false, another HTTP status, or an exception (timeout, bad JSON)
FacilitatorReplies == {"accepted", "refused", "http_error", "exception"}

\* what the protected view function does: returns a body, returns a
\* (body, status) error tuple, or raises
ViewOutcomes == {"returned", "returned_error", "raised"}

\* X402ResourceServer.require_payment: raises ValueError without a config
require_payment(payment_config, endpoint) == endpoint \in payment_config

\* X402ResourceServer.verify_payment: the isValid of the VerifyResponse
verify_payment(payment_config, endpoint, reply) ==
    IF ~(endpoint \in payment_config) THEN FALSE
    ELSE reply = "accepted"

\* X402ResourceServer.settle_payment: the success of the SettleResponse
settle_payment(payment_config, endpoint, reply) ==
    IF ~(endpoint \in payment_config) THEN FALSE
    ELSE reply = "accepted"

HeaderMissing_AsNeverMissing(payment_header) == FALSE

\* "if not payment_header:"
HeaderMissing(payment_header) == payment_header \in {"absent", "empty"}

\* a worker between requests
NoRequest ==
    [pc |-> "idle", endpoint |-> "none", payment_header |-> "absent",
     events |-> <<>>, status |-> 0, payment_response |-> FALSE]

InitX402 ==
    /\ backend = "postgres"
    /\ services = NoServices @@ [payment_config |-> ConfiguredEndpoints]
    /\ db = EmptyDb
    /\ today = 1
    /\ result = NoResult
    /\ procs = [i \in ProcIds |-> NoRequest]
    /\ hist = NoHist

\* a request reaches wrapped(); the previous request of the worker is over
X402Request(i, endpoint, payment_header) ==
    /\ procs[i].pc \in {"idle", "responded"}
    /\ procs' = [procs EXCEPT ![i] = [NoRequest EXCEPT !.pc = "header",
                                                        !.endpoint = endpoint,
                                                        !.payment_header = payment_header]]
    /\ UNCHANGED <<backend, services, db, today, result, hist>>

\* "if not payment_header:" -> 402 built from require_payment
X402CheckHeader(i) ==
    /\ procs[i].pc = "header"
    /\ procs' = [procs EXCEPT ![i] =
                    IF HeaderMissing(procs[i].payment_header)
                    THEN [@ EXCEPT !.pc = "responded",
                                   !.status = IF require_payment(services.payment_config,
                                                                 procs[i].endpoint)
                                              THEN 402 ELSE 500]
                    ELSE [@ EXCEPT !.pc = "verify"]]
    /\ UNCHANGED <<backend, services, db, today, result, hist>>

\* verify_result = x402_server.verify_payment(...); "if not verify_result.isValid"
X402Verify(i, reply) ==
    /\ procs[i].pc = "verify"
    /\ LET isValid == verify_payment(services.payment_config, procs[i].endpoint, reply)
       IN procs' = [procs EXCEPT ![i] =
                       IF ~isValid
                       THEN [@ EXCEPT !.events = Append(@, "verified_invalid"),
                                      !.pc = "responded",
                                      !.status = IF require_payment(services.payment_config,
                                                                    procs[i].endpoint)
                                                 THEN 402 ELSE 500]
                       ELSE [@ EXCEPT !.events = Append(@, "verified_valid"),
                                      !.pc = "execute"]]
    /\ UNCHANGED <<backend, services, db, today, result, hist>>

\* result = f(*args, **kwargs)
X402Execute(i, outcome) ==
    /\ procs[i].pc = "execute"
    /\ procs' = [procs EXCEPT ![i] =
                    IF outcome = "raised"
                    THEN [@ EXCEPT !.events = Append(@, "executed"),
                                   !.pc = "responded", !.status = 500]
                    ELSE [@ EXCEPT !.events = Append(@, "executed"),
                                   !.pc = "settle",
                                   !.status = IF outcome = "returned" THEN 200 ELSE 400]]
    /\ UNCHANGED <<backend, services, db, today, result, hist>>

\* settle_result = x402_server.settle_payment(...), then the response: with
\* the X-PAYMENT-RESPONSE header and the view's status when settled, a plain
\* jsonify(result) otherwise
X402Settle(i, reply) ==
    /\ procs[i].pc = "settle"
    /\ LET success == settle_payment(services.payment_config, procs[i].endpoint, reply)
       IN procs' = [procs EXCEPT ![i] =
                       [@ EXCEPT !.events = Append(@, "settle_attempted"),
                                 !.pc = "responded",
                                 !.payment_response = success,
                                 !.status = IF success THEN @ ELSE 200]]
    /\ UNCHANGED <<backend, services, db, today, result, hist>>

NextX402 ==
    \/ \E i \in ProcIds, endpoint \in ConfiguredEndpoints, payment_header \in PaymentHeaders :
           X402Request(i, endpoint, payment_header)
    \/ \E i \in ProcIds : X402CheckHeader(i)
    \/ \E i \in ProcIds, reply \in FacilitatorReplies : X402Verify(i, reply)
    \/ \E i \in ProcIds, outcome \in ViewOutcomes : X402Execute(i, outcome)
    \/ \E i \in ProcIds, reply \in FacilitatorReplies : X402Settle(i, reply)

SpecX402 == InitX402 /\ [][NextX402]_vars

\* the position of an event in a request's log, 0 when it did not happen
EventAt(events, e) ==
    IF \E k \in 1..Len(events) : events[k] = e
    THEN CHOOSE k \in 1..Len(events) : events[k] = e
    ELSE 0

\* C30: the protected function is executed only after an X-PAYMENT header was
\* present and the facilitator verified it as valid, and settlement is
\* attempted only after the function has run; a request without the header or
\* with a payment that is not verified as valid is answered 402 and neither
\* executes the function nor attempts settlement.
C30_PayBeforeExecuteBeforeSettle ==
    \A i \in ProcIds :
        LET r == procs[i]
            verified == EventAt(r.events, "verified_valid")
            executed == EventAt(r.events, "executed")
            settled == EventAt(r.events, "settle_attempted")
        IN /\ executed > 0 =>
                  /\ r.payment_header = "payment"
                  /\ 0 < verified /\ verified < executed
           /\ settled > 0 => (0 < executed /\ executed < settled)
           /\ (r.pc = "responded"
               /\ (r.payment_header # "payment" \/ EventAt(r.events, "verified_invalid") > 0))
              => (r.status = 402 /\ executed = 0 /\ settled = 0)

\* one request went header, valid verification, execution, settlement, in
\* that order, while another with a refused payment was answered 402
C30_Witness ==
    \E i, j \in ProcIds :
        /\ procs[i].pc = "responded"
        /\ procs[i].events = <<"verified_valid", "executed", "settle_attempted">>
        /\ procs[i].payment_response
        /\ procs[j].pc = "responded"
        /\ procs[j].payment_header = "payment"
        /\ procs[j].events = <<"verified_invalid">>
        /\ procs[j].status = 402

=============================================================================
